---------------------------- MODULE Spec2Model ----------------------------
(***************************************************************************)
(* A model of the data-access engine of lmdb-tui: the environment and its  *)
(* spaces, write transactions, the kv mutators, the undo/redo log, the     *)
(* scanner, and the two import/export paths.                               *)
(*                                                                         *)
(* Keys are sequences of character codes (a key "ab" is <<1, 2>>), values  *)
(* are sequences of octets.  The store is an LMDB environment as heed      *)
(* exposes it: one anonymous root space and named spaces, each an ordered  *)
(* map from keys to values.                                                *)
(***************************************************************************)
EXTENDS Integers, Sequences, FiniteSets, TLC

(***************************************************************************)
(* Bounds of the model.                                                    *)
(***************************************************************************)
MaxOps == 2         \* longest undo log the mutators are allowed to build
MaxJobs == 4        \* most requests ever sent to the JobQueue
MaxCalls == 2       \* most Worker::request calls one caller makes
MaxDecoders == 2    \* most decoders ever registered
MaxBody == 4        \* longest text after the keyword of a parsed query

(***************************************************************************)
(* The data universe.                                                      *)
(***************************************************************************)
None == <<>>              \* Option::None
Some(v) == <<v>>          \* Option::Some(v)
IsSome(o) == o # None
Unwrap(o) == o[1]
UNNAMED == "(unnamed)"    \* the reserved name of the anonymous root space
DATA == "data"
Names == {UNNAMED, DATA}
\* Space names in key (byte) order: '(' = 0x28 sorts before 'd' = 0x64.
NameOrder == <<UNNAMED, DATA>>

RECURSIVE SeqsUpTo(_, _)
SeqsUpTo(S, n) ==
    IF n = 0 THEN {<<>>}
    ELSE LET shorter == SeqsUpTo(S, n - 1)
         IN  shorter \cup {Append(s, c) : s \in shorter, c \in S}

\* The key universe: the keys of one or two characters over {a, b} (1 is "a",
\* 2 is "b").  LMDB rejects the zero-length key (MDB_BAD_VALSIZE), so a space
\* never holds it.
Chars == {1, 2}
KeySet == {<<a>> : a \in Chars} \cup {<<a, b>> : a \in Chars, b \in Chars}

\* A space maps every key of the universe to Some(value) or None (no entry).
NoEntries == [k \in KeySet |-> None]
\* A named space that does not exist: env.open_database(..) returns Ok(None).
NoSpace == [exists |-> FALSE, kv |-> NoEntries]
EmptySpace == [exists |-> TRUE, kv |-> NoEntries]
EmptyEnv == [root |-> NoEntries, named |-> [n \in Names |-> NoSpace]]

(***************************************************************************)
(* db/kv.rs: the mutators, applied to the pending view of a writer.        *)
(* Each returns the outcome (ok) and the view the writer is left with.     *)
(***************************************************************************)
\* env.create_database(txn, Some(name)): opens the named space, creating it
\* in the writer's view when it does not exist.  The name is taken literally.
CreateDatabase(view, db) ==
    IF ~view.named[db].exists
    THEN [view EXCEPT !.named[db] = EmptySpace]
    ELSE view

KvPut_DropsWrite(view, db, key, value) ==
    [ok |-> key # <<>>, view |-> CreateDatabase(view, db)]

KvPut_ToRoot(view, db, key, value) ==
    IF db = UNNAMED
    THEN IF key = <<>> THEN [ok |-> FALSE, view |-> view]
         ELSE [ok |-> TRUE, view |-> [view EXCEPT !.root[key] = Some(value)]]
    ELSE LET created == CreateDatabase(view, db)
         IN  IF key = <<>> THEN [ok |-> FALSE, view |-> created]
             ELSE [ok |-> TRUE, view |-> [created EXCEPT !.named[db].kv[key] = Some(value)]]

KvPut(view, db, key, value) ==
    LET created == CreateDatabase(view, db)
    IN  IF key = <<>>
        THEN [ok |-> FALSE, view |-> created]      \* db.put: MDB_BAD_VALSIZE
        ELSE [ok |-> TRUE, view |-> [created EXCEPT !.named[db].kv[key] = Some(value)]]

KvGet(view, db, key) ==
    IF ~view.named[db].exists
    THEN [ok |-> TRUE, value |-> None]             \* "Database doesn't exist"
    ELSE IF key = <<>>
         THEN [ok |-> FALSE, value |-> None]       \* db.get: MDB_BAD_VALSIZE
         ELSE [ok |-> TRUE, value |-> view.named[db].kv[key]]

KvDelete(view, db, key) ==
    IF ~view.named[db].exists
    THEN [ok |-> FALSE, view |-> view]             \* "database '{}' not found"
    ELSE IF key = <<>>
         THEN [ok |-> FALSE, view |-> view]        \* db.delete: MDB_BAD_VALSIZE
         ELSE [ok |-> TRUE, view |-> [view EXCEPT !.named[db].kv[key] = None]]

(***************************************************************************)
(* db/undo.rs: the undo log.                                               *)
(***************************************************************************)
OpPut(db, key, prev, new) ==
    [kind |-> "Put", db |-> db, key |-> key, prev |-> prev, new |-> Some(new)]
OpDelete(db, key, prev) ==
    [kind |-> "Delete", db |-> db, key |-> key, prev |-> prev, new |-> None]

NewUndoStack == [ops |-> <<>>, pos |-> 0]

can_undo(u) == u.pos > 0
can_redo(u) == u.pos < Len(u.ops)
undo_count(u) == u.pos
redo_count(u) == Len(u.ops) - u.pos

push_KeepsCursor(u, op) == [ops |-> Append(SubSeq(u.ops, 1, u.pos), op), pos |-> u.pos]

push_NoTruncate(u, op) == [ops |-> Append(u.ops, op), pos |-> u.pos + 1]

push(u, op) ==
    LET kept == IF u.pos < Len(u.ops) THEN SubSeq(u.ops, 1, u.pos) ELSE u.ops
        ops == Append(kept, op)
    IN  [ops |-> ops, pos |-> Len(ops)]

\* The inverse of a record, applied to the writer's view.
ApplyInverse_KeepsKey(view, op) ==
    IF IsSome(op.prev)
    THEN KvPut(view, op.db, op.key, Unwrap(op.prev))
    ELSE [ok |-> TRUE, view |-> view]

ApplyInverse(view, op) ==
    IF op.kind = "Put"
    THEN IF IsSome(op.prev)
         THEN KvPut(view, op.db, op.key, Unwrap(op.prev))
         ELSE KvDelete(view, op.db, op.key)
    ELSE IF IsSome(op.prev)
         THEN KvPut(view, op.db, op.key, Unwrap(op.prev))
         ELSE [ok |-> TRUE, view |-> view]

\* A record applied forward.
ApplyForward(view, op) ==
    IF op.kind = "Put"
    THEN KvPut(view, op.db, op.key, Unwrap(op.new))
    ELSE KvDelete(view, op.db, op.key)

UndoStep_NeverFalse(view, u) ==
    IF u.pos = 0
    THEN [res |-> "true", view |-> view, undo |-> u]
    ELSE LET r == ApplyInverse(view, u.ops[u.pos])
         IN  [res |-> IF r.ok THEN "true" ELSE "err", view |-> r.view,
              undo |-> [u EXCEPT !.pos = u.pos - 1]]

\* UndoStack::undo: res is "false" (nothing to undo), "true" or "err".
\* The cursor is moved before the inverse is applied.
UndoStep(view, u) ==
    IF u.pos = 0
    THEN [res |-> "false", view |-> view, undo |-> u]
    ELSE LET moved == [u EXCEPT !.pos = u.pos - 1]
             r == ApplyInverse(view, u.ops[u.pos])
         IN  [res |-> IF r.ok THEN "true" ELSE "err", view |-> r.view, undo |-> moved]

\* UndoStack::redo: the cursor is moved before the record is applied.
RedoStep(view, u) ==
    IF u.pos = Len(u.ops)
    THEN [res |-> "false", view |-> view, undo |-> u]
    ELSE LET moved == [u EXCEPT !.pos = u.pos + 1]
             r == ApplyForward(view, u.ops[u.pos + 1])
         IN  [res |-> IF r.ok THEN "true" ELSE "err", view |-> r.view, undo |-> moved]

(***************************************************************************)
(* commands.rs: the recording mutators.                                    *)
(***************************************************************************)
\* commands::put with the record pushed before kv::put is called.
CommandsPut_PushesFirst(view, u, db, key, value) ==
    LET g == KvGet(view, db, key)
        p == KvPut(view, db, key, value)
    IN  IF ~g.ok THEN [ok |-> FALSE, view |-> view, undo |-> u]
        ELSE [ok |-> p.ok, view |-> p.view,
              undo |-> push(u, OpPut(db, key, g.value, value))]

\* commands::put: prev <- kv::get, kv::put, then push; `?` returns early.
CommandsPut(view, u, db, key, value) ==
    LET g == KvGet(view, db, key)
        p == KvPut(view, db, key, value)
    IN  IF ~g.ok THEN [ok |-> FALSE, view |-> view, undo |-> u]
        ELSE IF ~p.ok THEN [ok |-> FALSE, view |-> p.view, undo |-> u]
        ELSE [ok |-> TRUE, view |-> p.view,
              undo |-> push(u, OpPut(db, key, g.value, value))]

\* commands::delete: prev <- kv::get, kv::delete, then push.
CommandsDelete(view, u, db, key) ==
    LET g == KvGet(view, db, key)
        d == KvDelete(view, db, key)
    IN  IF ~g.ok THEN [ok |-> FALSE, view |-> view, undo |-> u]
        ELSE IF ~d.ok THEN [ok |-> FALSE, view |-> d.view, undo |-> u]
        ELSE [ok |-> TRUE, view |-> d.view,
              undo |-> push(u, OpDelete(db, key, g.value))]

(***************************************************************************)
(* db/env.rs: readers of the committed store.                              *)
(***************************************************************************)
\* The space a reader opens for a name: "(unnamed)" is the anonymous root.
OpenForRead(st, db) ==
    IF db = UNNAMED THEN [exists |-> TRUE, kv |-> st.root] ELSE st.named[db]

HasEntries(kv) == \E k \in KeySet : IsSome(kv[k])

RECURSIVE FilterSeq(_, _)
FilterSeq(s, T) ==
    IF s = <<>> THEN <<>>
    ELSE IF Head(s) \in T THEN <<Head(s)>> \o FilterSeq(Tail(s), T)
         ELSE FilterSeq(Tail(s), T)

\* list_databases: the named spaces in catalog order, or ["(unnamed)"] when
\* there is none and the root space holds entries.
list_databases(st) ==
    LET names == FilterSeq(NameOrder, {n \in Names : st.named[n].exists})
    IN  IF names = <<>> /\ HasEntries(st.root) THEN <<UNNAMED>> ELSE names

(***************************************************************************)
(* db/query.rs: the scanner.                                               *)
(***************************************************************************)
\* usize::MAX, as a limit no page reaches.
Unbounded == 2147483647

\* Byte-wise lexicographic order, the order of LMDB keys and of Rust's str.
RECURSIVE LexLess(_, _)
LexLess(a, b) ==
    IF b = <<>> THEN FALSE
    ELSE IF a = <<>> THEN TRUE
    ELSE IF a[1] # b[1] THEN a[1] < b[1]
    ELSE LexLess(Tail(a), Tail(b))

LexLeq(a, b) == a = b \/ LexLess(a, b)

\* str::starts_with
starts_with(key, prefix) ==
    Len(prefix) <= Len(key) /\ SubSeq(key, 1, Len(prefix)) = prefix

\* The keys of a set in ascending order.
RECURSIVE SortKeys(_)
SortKeys(S) ==
    IF S = {} THEN <<>>
    ELSE LET m == CHOOSE k \in S : \A j \in S : LexLeq(k, j)
         IN  <<m>> \o SortKeys(S \ {m})

\* db.iter(rtxn): the entries <<key, value>> of a space in key order.
Iter(kv) ==
    LET keys == SortKeys({k \in KeySet : IsSome(kv[k])})
    IN  [i \in 1..Len(keys) |-> <<keys[i], Unwrap(kv[keys[i]])>>]

\* open_database of query.rs: "(unnamed)" is the root, a missing space an error.
open_database(st, db) ==
    IF db = UNNAMED THEN [ok |-> TRUE, kv |-> st.root]
    ELSE [ok |-> st.named[db].exists, kv |-> st.named[db].kv]

\* serde_json::from_slice, for texts over the octets ' ' (32) and '1' (49):
\* optional spaces, a run of the digit 1, optional spaces.  Anything else over
\* the octets of ByteSet is no JSON text.
RECURSIVE TrimLeft(_)
TrimLeft(b) == IF b # <<>> /\ Head(b) = 32 THEN TrimLeft(Tail(b)) ELSE b
RECURSIVE TrimRight(_)
TrimRight(b) ==
    IF b # <<>> /\ b[Len(b)] = 32 THEN TrimRight(SubSeq(b, 1, Len(b) - 1)) ELSE b
JsonParse(b) ==
    LET body == TrimRight(TrimLeft(b))
    IN  IF body # <<>> /\ \A i \in 1..Len(body) : body[i] = 49
        THEN [ok |-> TRUE, value |-> body]      \* the number, by its digits
        ELSE [ok |-> FALSE, value |-> <<>>]

\* rmp_serde::from_slice::<Value>: the first octet decides; a positive fixint
\* (0x00..0x7f) or a negative fixint (0xe0..0xff) is a value, 0xc1 is never
\* used by MessagePack, and the empty input is an error.
MsgPackParse(b) ==
    IF b # <<>> /\ (b[1] <= 127 \/ b[1] >= 224)
    THEN [ok |-> TRUE, value |-> <<b[1]>>]
    ELSE [ok |-> FALSE, value |-> <<>>]

\* decode_value with the built-in decoders in the other order.
decode_value_MsgPackFirst(b) ==
    IF MsgPackParse(b).ok
    THEN [ok |-> TRUE, by |-> "msgpack", value |-> MsgPackParse(b).value]
    ELSE IF JsonParse(b).ok THEN [ok |-> TRUE, by |-> "json", value |-> JsonParse(b).value]
         ELSE [ok |-> FALSE, by |-> "none", value |-> <<>>]

\* decode_value up to the plug-ins: JSON first, then MessagePack.  With an
\* empty registry this is all of it; the plug-in stage is decode_with_plugins
\* (ReadBegins, IterStep).
decode_value(b) ==
    IF JsonParse(b).ok THEN [ok |-> TRUE, by |-> "json", value |-> JsonParse(b).value]
    ELSE IF MsgPackParse(b).ok
         THEN [ok |-> TRUE, by |-> "msgpack", value |-> MsgPackParse(b).value]
         ELSE [ok |-> FALSE, by |-> "none", value |-> <<>>]

\* Regex::is_match for a pattern that is a literal: an unanchored search.
RegexIsMatch(pattern, key) ==
    \E i \in 1..(Len(key) + 1) :
        i + Len(pattern) - 1 <= Len(key)
        /\ SubSeq(key, i, i + Len(pattern) - 1) = pattern

\* jsonpath::select(v, path) is non-empty: "$" selects the value itself, and
\* "$.x" selects nothing in a number.
JsonPathSelects(path, value) == path = "$"

\* The query modes.
ModePrefix(p) == [kind |-> "Prefix", a |-> p, b |-> <<>>, path |-> ""]
ModeRange(lo, hi) == [kind |-> "Range", a |-> lo, b |-> hi, path |-> ""]
ModeRegex(re) == [kind |-> "Regex", a |-> re, b |-> <<>>, path |-> ""]
ModeJsonPath(path) == [kind |-> "JsonPath", a |-> <<>>, b |-> <<>>, path |-> path]

\* The closure count_matches and scan_paginated pass for Regex and JsonPath.
FullScanPredicate(mode, key, value) ==
    IF mode.kind = "Regex"
    THEN RegexIsMatch(mode.a, key)
    ELSE decode_value(value).ok /\ JsonPathSelects(mode.path, decode_value(value).value)

\* The tests of count_prefix_matches: `key.starts_with(prefix)`, `key > prefix`.
CountPrefixTakes(key, prefix) == starts_with(key, prefix)

CountPrefixBreaks_OnAnyMiss(key, prefix) == TRUE

CountPrefixBreaks(key, prefix) == LexLess(prefix, key)

\* count_prefix_matches, from entry i of the iterator on; read counts the
\* entries taken from the iterator.
RECURSIVE count_prefix_matches(_, _, _, _)
count_prefix_matches(it, i, prefix, acc) ==
    IF i > Len(it) THEN acc
    ELSE LET seen == [acc EXCEPT !.read = acc.read + 1]
         IN  IF CountPrefixTakes(it[i][1], prefix)
             THEN count_prefix_matches(it, i + 1, prefix,
                                       [seen EXCEPT !.count = seen.count + 1])
             ELSE IF CountPrefixBreaks(it[i][1], prefix) THEN seen
             ELSE count_prefix_matches(it, i + 1, prefix, seen)

\* The tests of count_range_matches: `key >= start && key < end`, `key >= end`.
CountRangeTakes(key, start, end) == LexLeq(start, key) /\ LexLess(key, end)

CountRangeBreaks_Never(key, end) == FALSE

CountRangeBreaks(key, end) == LexLeq(end, key)

\* count_range_matches
RECURSIVE count_range_matches(_, _, _, _, _)
count_range_matches(it, i, start, end, acc) ==
    IF i > Len(it) THEN acc
    ELSE LET seen == [acc EXCEPT !.read = acc.read + 1]
         IN  IF CountRangeTakes(it[i][1], start, end)
             THEN count_range_matches(it, i + 1, start, end,
                                      [seen EXCEPT !.count = seen.count + 1])
             ELSE IF CountRangeBreaks(it[i][1], end) THEN seen
             ELSE count_range_matches(it, i + 1, start, end, seen)

\* count_full_scan_matches
RECURSIVE count_full_scan_matches(_, _, _, _)
count_full_scan_matches(it, i, mode, acc) ==
    IF i > Len(it) THEN acc
    ELSE LET seen == [acc EXCEPT !.read = acc.read + 1]
         IN  IF FullScanPredicate(mode, it[i][1], it[i][2])
             THEN count_full_scan_matches(it, i + 1, mode,
                                          [seen EXCEPT !.count = seen.count + 1])
             ELSE count_full_scan_matches(it, i + 1, mode, seen)

\* The window of the three page loops: an entry that matches is skipped while
\* `skipped < offset`, else pushed, and the loop breaks once
\* `items.len() >= limit`, tested after the push.
SkipsMatch(skipped, offset) == ~(skipped >= offset)

PageFull_AfterOneMore(items, limit) == Len(items) > limit

PageFull(items, limit) == Len(items) >= limit

\* The tests of scan_prefix_paginated.
ScanPrefixTakes(key, prefix) == starts_with(key, prefix)

ScanPrefixBreaks_OnAnyMiss(key, prefix) == TRUE

ScanPrefixBreaks(key, prefix) == LexLess(prefix, key)

\* scan_prefix_paginated
RECURSIVE scan_prefix_paginated(_, _, _, _, _, _)
scan_prefix_paginated(it, i, prefix, offset, limit, acc) ==
    IF i > Len(it) THEN acc
    ELSE LET seen == [acc EXCEPT !.read = acc.read + 1]
         IN  IF ScanPrefixTakes(it[i][1], prefix)
             THEN IF SkipsMatch(seen.skipped, offset)
                  THEN scan_prefix_paginated(it, i + 1, prefix, offset, limit,
                           [seen EXCEPT !.skipped = seen.skipped + 1])
                  ELSE LET pushed == [seen EXCEPT !.items = Append(seen.items, it[i])]
                       IN  IF PageFull(pushed.items, limit) THEN pushed
                           ELSE scan_prefix_paginated(it, i + 1, prefix, offset,
                                                      limit, pushed)
             ELSE IF ScanPrefixBreaks(it[i][1], prefix) THEN seen
             ELSE scan_prefix_paginated(it, i + 1, prefix, offset, limit, seen)

\* The tests of scan_range_paginated.
ScanRangeTakes_Closed(key, start, end) == LexLeq(start, key) /\ LexLeq(key, end)

ScanRangeTakes(key, start, end) == LexLeq(start, key) /\ LexLess(key, end)

ScanRangeBreaks(key, end) == LexLeq(end, key)

\* scan_range_paginated
RECURSIVE scan_range_paginated(_, _, _, _, _, _, _)
scan_range_paginated(it, i, start, end, offset, limit, acc) ==
    IF i > Len(it) THEN acc
    ELSE LET seen == [acc EXCEPT !.read = acc.read + 1]
         IN  IF ScanRangeTakes(it[i][1], start, end)
             THEN IF SkipsMatch(seen.skipped, offset)
                  THEN scan_range_paginated(it, i + 1, start, end, offset, limit,
                           [seen EXCEPT !.skipped = seen.skipped + 1])
                  ELSE LET pushed == [seen EXCEPT !.items = Append(seen.items, it[i])]
                       IN  IF PageFull(pushed.items, limit) THEN pushed
                           ELSE scan_range_paginated(it, i + 1, start, end, offset,
                                                     limit, pushed)
             ELSE IF ScanRangeBreaks(it[i][1], end) THEN seen
             ELSE scan_range_paginated(it, i + 1, start, end, offset, limit, seen)

\* scan_full_paginated
RECURSIVE scan_full_paginated(_, _, _, _, _, _)
scan_full_paginated(it, i, mode, offset, limit, acc) ==
    IF i > Len(it) THEN acc
    ELSE LET seen == [acc EXCEPT !.read = acc.read + 1]
         IN  IF FullScanPredicate(mode, it[i][1], it[i][2])
             THEN IF SkipsMatch(seen.skipped, offset)
                  THEN scan_full_paginated(it, i + 1, mode, offset, limit,
                           [seen EXCEPT !.skipped = seen.skipped + 1])
                  ELSE LET pushed == [seen EXCEPT !.items = Append(seen.items, it[i])]
                       IN  IF PageFull(pushed.items, limit) THEN pushed
                           ELSE scan_full_paginated(it, i + 1, mode, offset, limit,
                                                    pushed)
             ELSE scan_full_paginated(it, i + 1, mode, offset, limit, seen)

\* count_matches
count_matches(st, db, mode) ==
    LET d == open_database(st, db)
        it == Iter(d.kv)
        zero == [count |-> 0, read |-> 0]
        r == CASE mode.kind = "Prefix" -> count_prefix_matches(it, 1, mode.a, zero)
               [] mode.kind = "Range" -> count_range_matches(it, 1, mode.a, mode.b, zero)
               [] OTHER -> count_full_scan_matches(it, 1, mode, zero)
    IN  IF d.ok THEN [ok |-> TRUE, count |-> r.count, read |-> r.read]
        ELSE [ok |-> FALSE, count |-> 0, read |-> 0]

\* scan_paginated
scan_paginated(st, db, mode, offset, limit) ==
    LET d == open_database(st, db)
        it == Iter(d.kv)
        zero == [items |-> <<>>, skipped |-> 0, read |-> 0]
        r == CASE mode.kind = "Prefix" ->
                    scan_prefix_paginated(it, 1, mode.a, offset, limit, zero)
               [] mode.kind = "Range" ->
                    scan_range_paginated(it, 1, mode.a, mode.b, offset, limit, zero)
               [] OTHER -> scan_full_paginated(it, 1, mode, offset, limit, zero)
    IN  IF d.ok THEN [ok |-> TRUE, items |-> r.items, read |-> r.read]
        ELSE [ok |-> FALSE, items |-> <<>>, read |-> 0]

(***************************************************************************)
(* db/env.rs: list_entries, and the codecs of commands.rs and db/io.rs.    *)
(***************************************************************************)
\* The loop of list_entries_paginated: an entry is skipped while
\* `skipped < offset`; the loop breaks when `items.len() >= limit`, tested
\* before the push.
RECURSIVE ListLoop(_, _, _, _, _)
ListLoop(it, i, offset, limit, acc) ==
    IF i > Len(it) THEN acc
    ELSE IF acc.skipped < offset
         THEN ListLoop(it, i + 1, offset, limit, [acc EXCEPT !.skipped = acc.skipped + 1])
         ELSE IF Len(acc.items) >= limit THEN acc
         ELSE ListLoop(it, i + 1, offset, limit,
                       [acc EXCEPT !.items = Append(acc.items, it[i])])

\* The window of the scanner's page loops in place of the reader's.
list_entries_paginated_AsScan(st, db, offset, limit) ==
    LET r == scan_paginated(st, db, ModePrefix(<<>>), offset, limit)
    IN  [ok |-> r.ok, items |-> r.items]

\* list_entries_paginated
list_entries_paginated(st, db, offset, limit) ==
    LET d == open_database(st, db)
        r == ListLoop(Iter(d.kv), 1, offset, limit, [items |-> <<>>, skipped |-> 0])
    IN  IF d.ok THEN [ok |-> TRUE, items |-> r.items] ELSE [ok |-> FALSE, items |-> <<>>]

\* list_entries
list_entries(st, db, limit) == list_entries_paginated(st, db, 0, limit)

\* base64 text is a sequence of sextets 0..63, the pad '=' is 64.
Pad == 64

\* general_purpose::STANDARD_NO_PAD.encode
RECURSIVE B64Encode_NoPad(_)
B64Encode_NoPad(b) ==
    IF b = <<>> THEN <<>>
    ELSE IF Len(b) = 1 THEN <<b[1] \div 4, (b[1] % 4) * 16>>
    ELSE IF Len(b) = 2
         THEN <<b[1] \div 4, (b[1] % 4) * 16 + (b[2] \div 16), (b[2] % 16) * 4>>
    ELSE <<b[1] \div 4, (b[1] % 4) * 16 + (b[2] \div 16),
           (b[2] % 16) * 4 + (b[3] \div 64), b[3] % 64>>
         \o B64Encode_NoPad(SubSeq(b, 4, Len(b)))

\* general_purpose::STANDARD.encode: three octets to four sextets, the last
\* group padded with '='.
RECURSIVE B64Encode(_)
B64Encode(b) ==
    IF b = <<>> THEN <<>>
    ELSE IF Len(b) = 1 THEN <<b[1] \div 4, (b[1] % 4) * 16, Pad, Pad>>
    ELSE IF Len(b) = 2
         THEN <<b[1] \div 4, (b[1] % 4) * 16 + (b[2] \div 16), (b[2] % 16) * 4, Pad>>
    ELSE <<b[1] \div 4, (b[1] % 4) * 16 + (b[2] \div 16),
           (b[2] % 16) * 4 + (b[3] \div 64), b[3] % 64>>
         \o B64Encode(SubSeq(b, 4, Len(b)))

\* general_purpose::STANDARD.decode: groups of four sextets; padding is
\* required, allowed in the last group only, and the bits a padded group
\* leaves over must be zero.
RECURSIVE B64Decode(_)
B64Decode(t) ==
    IF t = <<>> THEN [ok |-> TRUE, bytes |-> <<>>]
    ELSE IF Len(t) < 4 \/ t[1] = Pad \/ t[2] = Pad THEN [ok |-> FALSE, bytes |-> <<>>]
    ELSE IF t[3] = Pad
         THEN IF Len(t) = 4 /\ t[4] = Pad /\ t[2] % 16 = 0
              THEN [ok |-> TRUE, bytes |-> <<t[1] * 4 + (t[2] \div 16)>>]
              ELSE [ok |-> FALSE, bytes |-> <<>>]
    ELSE IF t[4] = Pad
         THEN IF Len(t) = 4 /\ t[3] % 4 = 0
              THEN [ok |-> TRUE,
                    bytes |-> <<t[1] * 4 + (t[2] \div 16),
                                (t[2] % 16) * 16 + (t[3] \div 4)>>]
              ELSE [ok |-> FALSE, bytes |-> <<>>]
    ELSE LET rest == B64Decode(SubSeq(t, 5, Len(t)))
         IN  IF rest.ok
             THEN [ok |-> TRUE,
                   bytes |-> <<t[1] * 4 + (t[2] \div 16),
                               (t[2] % 16) * 16 + (t[3] \div 4),
                               (t[3] % 4) * 64 + t[4]>> \o rest.bytes]
             ELSE rest

\* serde_json::to_vec of a Value JsonParse returned: the number's digits.
JsonSerialize(v) == v

\* String::from_utf8_lossy over the octets ' ', '1' and 0xff: 0xff is no UTF-8
\* and becomes U+FFFD, the octets ef bf bd.
RECURSIVE from_utf8_lossy(_)
from_utf8_lossy(b) ==
    IF b = <<>> THEN <<>>
    ELSE (IF Head(b) >= 128 THEN <<239, 191, 189>> ELSE <<Head(b)>>)
         \o from_utf8_lossy(Tail(b))

\* The record csv::Writer writes for ["key", "value"].
HeaderRow == <<<<107, 101, 121>>, <<118, 97, 108, 117, 101>>>>

\* csv::Reader::records: with has_headers (the default) the first record is
\* taken as the header and not returned.
CsvRecords(rows, has_headers) ==
    IF has_headers /\ rows # <<>> THEN Tail(rows) ELSE rows

\* commands::export_json: a document of items <<key, base64 of the value>>.
CommandsExportJson(st, db) ==
    LET e == list_entries(st, db, Unbounded)
    IN  [ok |-> e.ok,
         rows |-> [i \in 1..Len(e.items) |-> <<e.items[i][1], B64Encode(e.items[i][2])>>]]

\* commands::export_csv: the header record, then a record per entry.
CommandsExportCsv(st, db) ==
    LET e == list_entries(st, db, Unbounded)
    IN  [ok |-> e.ok,
         rows |-> <<HeaderRow>> \o
                  [i \in 1..Len(e.items) |-> <<e.items[i][1], B64Encode(e.items[i][2])>>]]

\* The loop of commands::import_json and commands::import_csv over the
\* records: decode, kv::get for prev, kv::put, push; the first error ends it
\* and leaves what was written in the transaction.  A record is a sequence of
\* fields; csv::Reader refuses a record whose number of fields differs from
\* the first record's (width), and a record with no second field has no value.
RECURSIVE ImportLoop_SkipsBad(_, _, _, _, _, _)
ImportLoop_SkipsBad(view, u, db, rows, i, width) ==
    IF i > Len(rows) THEN [ok |-> TRUE, view |-> view, undo |-> u]
    ELSE IF Len(rows[i]) # width \/ Len(rows[i]) < 2
         THEN [ImportLoop_SkipsBad(view, u, db, rows, i + 1, width) EXCEPT !.ok = FALSE]
    ELSE LET value == B64Decode(rows[i][2])
             g == KvGet(view, db, rows[i][1])
             p == KvPut(view, db, rows[i][1], value.bytes)
         IN  IF ~value.ok \/ ~g.ok \/ ~p.ok
             THEN [ImportLoop_SkipsBad(view, u, db, rows, i + 1, width) EXCEPT !.ok = FALSE]
             ELSE ImportLoop_SkipsBad(p.view,
                                      push(u, OpPut(db, rows[i][1], g.value, value.bytes)),
                                      db, rows, i + 1, width)

RECURSIVE ImportLoop(_, _, _, _, _, _)
ImportLoop(view, u, db, rows, i, width) ==
    IF i > Len(rows) THEN [ok |-> TRUE, view |-> view, undo |-> u]
    ELSE IF Len(rows[i]) # width \/ Len(rows[i]) < 2
         THEN [ok |-> FALSE, view |-> view, undo |-> u]
    ELSE LET value == B64Decode(rows[i][2])
             g == KvGet(view, db, rows[i][1])
             p == KvPut(view, db, rows[i][1], value.bytes)
         IN  IF ~value.ok \/ ~g.ok THEN [ok |-> FALSE, view |-> view, undo |-> u]
             ELSE IF ~p.ok THEN [ok |-> FALSE, view |-> p.view, undo |-> u]
             ELSE ImportLoop(p.view, push(u, OpPut(db, rows[i][1], g.value, value.bytes)),
                             db, rows, i + 1, width)

\* serde_json::from_reader::<Vec<_>>: the whole document is parsed before the
\* first record is used, and an item without its two fields fails it.
JsonDocumentParses(rows) == \A i \in 1..Len(rows) : Len(rows[i]) = 2

\* commands::import_json
CommandsImportJson(view, u, db, rows) ==
    IF JsonDocumentParses(rows)
    THEN ImportLoop(view, u, db, rows, 1, 2)
    ELSE [ok |-> FALSE, view |-> view, undo |-> u]

\* commands::import_csv
CommandsImportCsv(view, u, db, rows) ==
    ImportLoop(view, u, db, CsvRecords(rows, TRUE), 1,
               IF rows = <<>> THEN 2 ELSE Len(rows[1]))

\* io::export_json: each value goes through serde_json::from_slice, and the
\* first value that is no JSON text fails the export.
IoExportJson(st, db) ==
    LET sp == st.named[db]
        it == Iter(sp.kv)
    IN  IF sp.exists /\ \A i \in 1..Len(it) : JsonParse(it[i][2]).ok
        THEN [ok |-> TRUE,
              rows |-> [i \in 1..Len(it) |->
                          <<it[i][1], JsonSerialize(JsonParse(it[i][2]).value)>>]]
        ELSE [ok |-> FALSE, rows |-> <<>>]

\* io::export_csv: a record <<key, from_utf8_lossy(value)>> per entry, no header.
IoExportCsv(st, db) ==
    LET sp == st.named[db]
        it == Iter(sp.kv)
    IN  IF sp.exists
        THEN [ok |-> TRUE,
              rows |-> [i \in 1..Len(it) |-> <<it[i][1], from_utf8_lossy(it[i][2])>>]]
        ELSE [ok |-> FALSE, rows |-> <<>>]

\* The loop of io::import_json / io::import_csv: db.put of every record on
\* the writer's view of the space; the first put that fails (the empty key),
\* and for csv the first record whose number of fields differs from the first
\* record's, ends it with an error.
RECURSIVE IoPutAll(_, _, _, _)
IoPutAll(kv, rows, i, width) ==
    IF i > Len(rows) THEN [ok |-> TRUE, kv |-> kv]
    ELSE IF Len(rows[i]) # width \/ rows[i][1] = <<>> THEN [ok |-> FALSE, kv |-> kv]
    ELSE IoPutAll([kv EXCEPT ![rows[i][1]] =
                       Some(IF Len(rows[i]) >= 2 THEN rows[i][2] ELSE <<>>)],
                  rows, i + 1, width)

(***************************************************************************)
(* db/query.rs: parse_query.  A query text is a sequence of characters,    *)
(* each a one-character string.                                            *)
(***************************************************************************)
KwPrefix == <<"p", "r", "e", "f", "i", "x", " ">>
KwRange == <<"r", "a", "n", "g", "e", " ">>
KwRegex == <<"r", "e", "g", "e", "x", " ">>
KwJsonPath == <<"j", "s", "o", "n", "p", "a", "t", "h", " ">>
DotDot == <<".", ".">>

\* char::is_whitespace, for the characters of the model.
IsWhitespace(c) == c = " "

\* str::trim
RECURSIVE trim_start(_)
trim_start(t) == IF t # <<>> /\ IsWhitespace(Head(t)) THEN trim_start(Tail(t)) ELSE t

RECURSIVE trim_end(_)
trim_end(t) ==
    IF t # <<>> /\ IsWhitespace(t[Len(t)]) THEN trim_end(SubSeq(t, 1, Len(t) - 1)) ELSE t

trim(t) == trim_end(trim_start(t))

\* str::strip_prefix
strip_prefix(t, p) ==
    IF starts_with(t, p) THEN Some(SubSeq(t, Len(p) + 1, Len(t))) ELSE None

\* str::split_once(".."): the text before and after the first "..".
split_once(t, sep) ==
    LET at == {i \in 1..Len(t) : starts_with(SubSeq(t, i, Len(t)), sep)}
    IN  IF at = {} THEN None
        ELSE LET i == CHOOSE j \in at : \A k \in at : j <= k
             IN  Some(<<SubSeq(t, 1, i - 1), SubSeq(t, i + Len(sep), Len(t))>>)

\* str::split_whitespace: the maximal runs of characters that are not
\* whitespace, in order.
RECURSIVE split_whitespace(_)
split_whitespace(t) ==
    LET u == trim_start(t)
        ends == {i \in 1..Len(u) : IsWhitespace(u[i])}
        n == IF ends = {} THEN Len(u) + 1 ELSE CHOOSE i \in ends : \A k \in ends : i <= k
    IN  IF u = <<>> THEN <<>>
        ELSE <<SubSeq(u, 1, n - 1)>> \o split_whitespace(SubSeq(u, n, Len(u)))

\* Regex::new, for patterns over letters, ".", " ", "(" and ")": the pattern
\* compiles when its parentheses are balanced.
RECURSIVE ParenDepth(_, _)
ParenDepth(t, d) ==
    IF d < 0 \/ t = <<>> THEN d
    ELSE ParenDepth(Tail(t), IF Head(t) = "(" THEN d + 1
                             ELSE IF Head(t) = ")" THEN d - 1 ELSE d)

RegexNew(t) == ParenDepth(t, 0) = 0

\* What parse_query returns: Ok(mode) or Err(err).
ParseOk(kind, a, b) == [ok |-> TRUE, err |-> "", kind |-> kind, a |-> a, b |-> b]
ParseErr(err) == [ok |-> FALSE, err |-> err, kind |-> "", a |-> <<>>, b |-> <<>>]

\* The "range " arm of parse_query.
ParseRange(rest) ==
    LET parts == split_whitespace(rest)
    IN  IF IsSome(split_once(rest, DotDot))
        THEN ParseOk("Range", trim(Unwrap(split_once(rest, DotDot))[1]),
                     trim(Unwrap(split_once(rest, DotDot))[2]))
        ELSE IF Len(parts) >= 2 THEN ParseOk("Range", parts[1], parts[2])
        ELSE ParseErr("invalid range query")

\* The keyword tests of parse_query, in the order it makes them.
Dispatch_IgnoresCase(trimmed, kw) ==
    strip_prefix([i \in 1..Len(trimmed) |->
                     IF trimmed[i] = "P" THEN "p" ELSE trimmed[i]], kw)

Dispatch(trimmed, kw) == strip_prefix(trimmed, kw)

parse_query(input) ==
    LET trimmed == trim(input)
    IN  IF trimmed = <<>> THEN ParseErr("empty query")
        ELSE IF IsSome(Dispatch(trimmed, KwPrefix))
        THEN ParseOk("Prefix", Unwrap(Dispatch(trimmed, KwPrefix)), <<>>)
        ELSE IF IsSome(Dispatch(trimmed, KwRange))
        THEN ParseRange(Unwrap(Dispatch(trimmed, KwRange)))
        ELSE IF IsSome(Dispatch(trimmed, KwRegex))
        THEN IF RegexNew(Unwrap(Dispatch(trimmed, KwRegex)))
             THEN ParseOk("Regex", Unwrap(Dispatch(trimmed, KwRegex)), <<>>)
             ELSE ParseErr("regex")
        ELSE IF IsSome(Dispatch(trimmed, KwJsonPath))
        THEN ParseOk("JsonPath", Unwrap(Dispatch(trimmed, KwJsonPath)), <<>>)
        ELSE ParseOk("Prefix", trimmed, <<>>)

(***************************************************************************)
(* The state.                                                              *)
(***************************************************************************)
VARIABLES
    store,      \* the committed environment, what a read snapshot sees
    txn,        \* the writer: live, its pending view, the store at begin (base),
                \* the view after its latest put/delete call that left the log
                \* cursor at the end (post), and whether
                \* the undo log was empty at begin (fresh)
    undo,       \* the UndoStack
    last,       \* the last call and what it returned
    ended,      \* how the last writer ended, the store a reader must see after it,
                \* and whether that writer had changed an entry in its view (dirty)
    db_names,   \* App::db_names
    selected,   \* App::selected
    scan,       \* the last scanner call and what it returned; for a caller that
                \* walks the pages, the pages fetched so far
    file,       \* the exported file: who wrote it and in which format, its
                \* records, the entries of the exported space, and the import
    thr,        \* the threads that call Txn::begin: where each one is, what its
                \* last Txn::begin returned, and whether the environment was
                \* opened read-only
    ui,         \* the interactive loop of run: whether it still runs, the view,
                \* App::query and App::query_loading
    jobs,       \* the JobQueue: its two channels, its worker thread, and the
                \* statistics the App took from it
    wk,         \* the generic Worker: its request channel, its task, and the
                \* callers of Worker::request
    reg         \* the plug-in registry DECODERS, its lock, and the threads that
                \* register and decode

vars ==
    <<store, txn, undo, last, ended, db_names, selected, scan, file, thr, ui, jobs,
      wk, reg>>

KvKeys == {<<>>, <<1>>}           \* keys the callers pass (the empty key is refused)
KvValues == {<<1>>, <<2>>}        \* values the callers pass

\* Environments the program is opened on.
RootData == [NoEntries EXCEPT ![<<2>>] = Some(<<1>>)]
InitEnvs ==
    { EmptyEnv,
      [EmptyEnv EXCEPT !.root = RootData],
      [EmptyEnv EXCEPT !.named[DATA] = [EmptySpace EXCEPT !.kv[<<1>>] = Some(<<2>>)]] }

\* No scanner call was made.
ScanIdle ==
    [op |-> "none", db |-> DATA, mode |-> ModePrefix(<<>>), offset |-> 0, limit |-> 0,
     ok |-> TRUE, count |-> 0, items |-> <<>>, read |-> 0, done |-> FALSE]

\* Nothing was exported.
NoFile ==
    [by |-> "none", fmt |-> "none", db |-> DATA, ok |-> FALSE, rows |-> <<>>,
     src |-> NoEntries, dst |-> DATA, imported |-> "no"]

\* The threads: the foreground thread and two gRPC handlers.
Threads == {"fg", "rpc1", "rpc2"}

\* Every thread is idle, on an environment opened for writing.
ThreadsIdle ==
    [read_only |-> FALSE, pc |-> [t \in Threads |-> "idle"],
     res |-> [t \in Threads |-> "none"], busy |-> [t \in Threads |-> FALSE]]

\* The App before construction: nothing runs.
UiIdle ==
    [running |-> FALSE, failed |-> FALSE, err |-> FALSE, view |-> <<"Main">>,
     before |-> <<"Main">>, query |-> <<>>, query_loading |-> FALSE, entries |-> <<>>,
     total_entries |-> 0, cursor |-> 0, query_cursor |-> 0, page_offset |-> 0,
     dialog_key |-> <<>>, dialog_value |-> <<>>, bookmarks |-> {},
     jump_history |-> <<>>, filtered_bookmarks |-> <<>>, preview_key |-> None]

\* No JobQueue was made.
NoJobs == <<>>

\* No Worker was started.
NoWorker == <<>>

\* The registry before its first use.
NoRegistry == <<>>

\* No writer is live.
NoTxn ==
    [live |-> FALSE, view |-> EmptyEnv, base |-> EmptyEnv, post |-> EmptyEnv,
     fresh |-> FALSE]

Init ==
    /\ store \in InitEnvs
    /\ txn = NoTxn
    /\ undo = NewUndoStack
    /\ last = [call |-> "none", res |-> "none"]
    /\ ended = [how |-> "none", expect |-> store, dirty |-> FALSE]
    /\ db_names = list_databases(store)
    /\ selected = 0
    /\ scan = ScanIdle
    /\ file = NoFile
    /\ thr = ThreadsIdle
    /\ ui = UiIdle
    /\ jobs = NoJobs
    /\ wk = NoWorker
    /\ reg = NoRegistry

Live == txn.live

\* What get(space, key) returns for every space and key, and the root entries:
\* a space that does not exist and an empty space have the same contents.
Contents(st) == [root |-> st.root, named |-> [n \in Names |-> st.named[n].kv]]

Dirty(view, base) == Contents(view) # Contents(base)

\* The space names a caller passes: the spaces the environment listed when it
\* was opened (the interactive caller passes db_names[selected]), or "data"
\* on an environment that listed none.
Addressed ==
    IF db_names = <<>> THEN {DATA} ELSE {db_names[i] : i \in DOMAIN db_names}

\* Txn::begin: env.write_txn() hands out the writer when none is live.
TxnBegin ==
    /\ ~Live
    /\ txn' = [live |-> TRUE, view |-> store, base |-> store, post |-> store,
               fresh |-> undo.ops = <<>>]
    /\ last' = [call |-> "begin", res |-> "ok"]
    /\ UNCHANGED <<store, undo, ended, db_names, selected, scan, file, thr, ui, jobs, wk, reg>>

\* What Txn::commit publishes.
Published_Nothing(t) == t.base

Published(t) == t.view

\* Txn::commit
TxnCommit ==
    /\ Live
    /\ store' = Published(txn)
    /\ ended' = [how |-> "commit", expect |-> txn.view, dirty |-> Dirty(txn.view, txn.base)]
    /\ txn' = NoTxn
    /\ last' = [call |-> "commit", res |-> "ok"]
    /\ UNCHANGED <<undo, db_names, selected, scan, file, thr, ui, jobs, wk, reg>>

\* What is left of the store after Txn::abort (or a drop without commit).
Discarded_Publishes(t) == t.view

Discarded(t) == store

\* Txn::abort, and the drop of a Txn that was not committed.
TxnAbort ==
    /\ Live
    /\ store' = Discarded(txn)
    /\ ended' = [how |-> "abort", expect |-> txn.base, dirty |-> Dirty(txn.view, txn.base)]
    /\ txn' = NoTxn
    /\ last' = [call |-> "abort", res |-> "ok"]
    /\ UNCHANGED <<undo, db_names, selected, scan, file, thr, ui, jobs, wk, reg>>

\* The view after a put/delete call that left the cursor at the end of the log:
\* the state "after the sequence" that redo has to come back to.
PostOf(r) == IF r.undo.pos = Len(r.undo.ops) THEN r.view ELSE txn.post

\* commands::put under the live writer.
Put(db, key, value) ==
    /\ Live
    /\ Len(undo.ops) < MaxOps
    /\ LET r == CommandsPut(txn.view, undo, db, key, value)
       IN  /\ txn' = [txn EXCEPT !.view = r.view, !.post = PostOf(r)]
           /\ undo' = r.undo
           /\ last' = [call |-> "put", res |-> IF r.ok THEN "ok" ELSE "err"]
    /\ UNCHANGED <<store, ended, db_names, selected, scan, file, thr, ui, jobs, wk, reg>>

\* commands::delete under the live writer.
Delete(db, key) ==
    /\ Live
    /\ Len(undo.ops) < MaxOps
    /\ LET r == CommandsDelete(txn.view, undo, db, key)
       IN  /\ txn' = [txn EXCEPT !.view = r.view, !.post = PostOf(r)]
           /\ undo' = r.undo
           /\ last' = [call |-> "delete", res |-> IF r.ok THEN "ok" ELSE "err"]
    /\ UNCHANGED <<store, ended, db_names, selected, scan, file, thr, ui, jobs, wk, reg>>

\* UndoStack::undo under the live writer.
Undo ==
    /\ Live
    /\ LET r == UndoStep(txn.view, undo)
       IN  /\ txn' = [txn EXCEPT !.view = r.view]
           /\ undo' = r.undo
           /\ last' = [call |-> "undo", res |-> r.res]
    /\ UNCHANGED <<store, ended, db_names, selected, scan, file, thr, ui, jobs, wk, reg>>

\* UndoStack::redo under the live writer.
Redo ==
    /\ Live
    /\ LET r == RedoStep(txn.view, undo)
       IN  /\ txn' = [txn EXCEPT !.view = r.view]
           /\ undo' = r.undo
           /\ last' = [call |-> "redo", res |-> r.res]
    /\ UNCHANGED <<store, ended, db_names, selected, scan, file, thr, ui, jobs, wk, reg>>

\* App::reduce(Action::ConfirmCreate) and App::reduce(Action::ConfirmEdit):
\* the same code.  A writer of its own, commands::put on db_names[selected],
\* commit on success and abort on failure; nothing with an empty dialog key.
ConfirmPut(call, key, value) ==
    /\ ~Live                     \* Txn::begin waits for the writer
    /\ Len(undo.ops) < MaxOps
    /\ IF key # <<>> /\ db_names # <<>>
       THEN LET r == CommandsPut(store, undo, db_names[selected + 1], key, value)
            IN  /\ undo' = r.undo
                /\ store' = IF r.ok THEN r.view ELSE store
                /\ ended' = IF r.ok
                             THEN [how |-> "commit", expect |-> r.view,
                                   dirty |-> Dirty(r.view, store)]
                             ELSE [how |-> "abort", expect |-> store,
                                   dirty |-> Dirty(r.view, store)]
                /\ last' = [call |-> call, res |-> IF r.ok THEN "ok" ELSE "err"]
       ELSE /\ last' = [call |-> call, res |-> "none"]
            /\ UNCHANGED <<store, undo, ended>>
    /\ UNCHANGED <<txn, db_names, selected, scan, file, thr, ui, jobs, wk, reg>>

ConfirmCreate(key, value) == ConfirmPut("ConfirmCreate", key, value)

ConfirmEdit(key, value) == ConfirmPut("ConfirmEdit", key, value)

Next ==
    \/ TxnBegin
    \/ TxnCommit
    \/ TxnAbort
    \/ \E db \in Addressed, key \in KvKeys, value \in KvValues : Put(db, key, value)
    \/ \E db \in Addressed, key \in KvKeys : Delete(db, key)
    \/ Undo
    \/ Redo
    \/ \E key \in KvKeys, value \in KvValues : ConfirmCreate(key, value)
    \/ \E key \in KvKeys, value \in KvValues : ConfirmEdit(key, value)

Spec == Init /\ [][Next]_vars

(***************************************************************************)
(* The scanner over a committed store (SpecScan).                          *)
(***************************************************************************)
MaxEntries == 3     \* entries of the scanned space
MaxOffset == 2      \* offsets the callers pass
MaxLimit == 2       \* limits and page steps the callers pass

\* The value stored under a key: the JSON text "1", or the octet 0xc1, which
\* neither decoder accepts.
ScanValue(k) == IF k[Len(k)] = 1 THEN <<49>> ELSE <<193>>

SpaceOf(S) ==
    [exists |-> TRUE, kv |-> [k \in KeySet |-> IF k \in S THEN Some(ScanValue(k)) ELSE None]]

\* The environments scanned: no space at all, entries in the root only, and
\* "data" with every set of at most MaxEntries keys.
ScanEnvs ==
    {EmptyEnv, [EmptyEnv EXCEPT !.root = RootData]}
    \cup {[EmptyEnv EXCEPT !.named[DATA] = SpaceOf(S)] :
            S \in {T \in SUBSET KeySet : Cardinality(T) <= MaxEntries}}

ScanArgs == KeySet \cup {<<>>}
ScanModes ==
    {ModePrefix(p) : p \in ScanArgs}
    \cup {ModeRange(lo, hi) : lo \in ScanArgs, hi \in ScanArgs}
    \cup {ModeRegex(re) : re \in {<<1>>, <<2>>, <<1, 2>>}}
    \cup {ModeJsonPath(path) : path \in {"$", "$.x"}}
ScanLimits == 0..MaxLimit \cup {Unbounded}

\* The query of a run: the space name, the mode, the offset and the limit (for
\* a caller that walks the pages, the step) are drawn at the start.
ScanQueries ==
    {[ScanIdle EXCEPT !.db = db, !.mode = mode, !.offset = offset, !.limit = limit] :
        db \in Names, mode \in ScanModes, offset \in 0..MaxOffset, limit \in ScanLimits}

ScanInit ==
    /\ store \in ScanEnvs
    /\ txn = NoTxn
    /\ undo = NewUndoStack
    /\ last = [call |-> "none", res |-> "none"]
    /\ ended = [how |-> "none", expect |-> store, dirty |-> FALSE]
    /\ db_names = list_databases(store)
    /\ selected = 0
    /\ scan \in ScanQueries
    /\ file = NoFile
    /\ thr = ThreadsIdle
    /\ ui = UiIdle
    /\ jobs = NoJobs
    /\ wk = NoWorker
    /\ reg = NoRegistry

\* A call of count_matches with the query's space and mode.
ScanCount ==
    /\ scan.op = "none"
    /\ LET r == count_matches(store, scan.db, scan.mode)
       IN  scan' = [scan EXCEPT !.op = "count", !.ok = r.ok, !.count = r.count,
                                !.read = r.read, !.done = TRUE]
    /\ UNCHANGED <<store, txn, undo, last, ended, db_names, selected, file, thr, ui, jobs, wk, reg>>

\* A call of scan_paginated with the query.
ScanPage ==
    /\ scan.op = "none"
    /\ LET r == scan_paginated(store, scan.db, scan.mode, scan.offset, scan.limit)
       IN  scan' = [scan EXCEPT !.op = "page", !.ok = r.ok, !.items = r.items,
                                !.read = r.read, !.done = TRUE]
    /\ UNCHANGED <<store, txn, undo, last, ended, db_names, selected, file, thr, ui, jobs, wk, reg>>

\* A call of list_entries_paginated with the query's space, offset and limit.
ListPage ==
    /\ scan.op = "none"
    /\ LET r == list_entries_paginated(store, scan.db, scan.offset, scan.limit)
       IN  scan' = [scan EXCEPT !.op = "list", !.mode = ScanIdle.mode, !.ok = r.ok,
                                !.items = r.items, !.done = TRUE]
    /\ UNCHANGED <<store, txn, undo, last, ended, db_names, selected, file, thr, ui, jobs, wk, reg>>

\* A caller that walks the pages of the query with the step scan.limit >= 1:
\* the first call of scan_paginated, at offset 0.  scan.offset becomes the
\* offset of the next call.
PagerStart ==
    /\ scan.op = "none"
    /\ scan.limit \in 1..MaxLimit
    /\ LET r == scan_paginated(store, scan.db, scan.mode, 0, scan.limit)
       IN  scan' = [scan EXCEPT !.op = "pages", !.offset = scan.limit, !.ok = r.ok,
                                !.items = r.items, !.read = r.read,
                                !.done = ~r.ok \/ r.items = <<>>]
    /\ UNCHANGED <<store, txn, undo, last, ended, db_names, selected, file, thr, ui, jobs, wk, reg>>

\* The walk's next call of scan_paginated; an empty page ends the walk.
PagerNext ==
    /\ scan.op = "pages" /\ ~scan.done
    /\ LET r == scan_paginated(store, scan.db, scan.mode, scan.offset, scan.limit)
       IN  scan' = [scan EXCEPT !.offset = scan.offset + scan.limit,
                                !.items = scan.items \o r.items, !.read = r.read,
                                !.done = r.items = <<>>]
    /\ UNCHANGED <<store, txn, undo, last, ended, db_names, selected, file, thr, ui, jobs, wk, reg>>

ScanNext ==
    \/ ScanCount
    \/ ScanPage
    \/ ListPage
    \/ PagerStart
    \/ PagerNext

SpecScan == ScanInit /\ [][ScanNext]_vars

(***************************************************************************)
(* Export and import of a space (SpecCodec).                               *)
(***************************************************************************)
MaxOctets == 3      \* octets of the values of a space, all together

\* The octets of the stored values: ' ', '1' and 0xff.
ByteSet == {32, 49, 255}
CodecValues == SeqsUpTo(ByteSet, MaxOctets)
CodecKeys == {<<1>>, <<2>>}

OctetsOf(o) == IF IsSome(o) THEN Len(Unwrap(o)) ELSE 0

\* The spaces exported: every assignment of values to the keys of CodecKeys
\* with at most MaxOctets octets.
CodecSpaces ==
    {[k \in KeySet |-> IF k \in CodecKeys THEN f[k] ELSE None] :
        f \in {g \in [CodecKeys -> {None} \cup {Some(v) : v \in CodecValues}] :
                 OctetsOf(g[<<1>>]) + OctetsOf(g[<<2>>]) <= MaxOctets}}

\* The environments: the space is "data", or the root of an environment with
\* no named space.
CodecEnvs ==
    {[EmptyEnv EXCEPT !.named[DATA] = [exists |-> TRUE, kv |-> S]] : S \in CodecSpaces}
    \cup {[EmptyEnv EXCEPT !.root = S] : S \in CodecSpaces}

CodecInit ==
    /\ store \in CodecEnvs
    /\ txn = NoTxn
    /\ undo = NewUndoStack
    /\ last = [call |-> "none", res |-> "none"]
    /\ ended = [how |-> "none", expect |-> store, dirty |-> FALSE]
    /\ db_names = list_databases(store)
    /\ selected = 0
    /\ scan = ScanIdle
    /\ file = NoFile
    /\ thr = ThreadsIdle
    /\ ui = UiIdle
    /\ jobs = NoJobs
    /\ wk = NoWorker
    /\ reg = NoRegistry

\* The file an export leaves, with the entries the exported space held.
Exported(by, fmt, db, r, kv) ==
    [by |-> by, fmt |-> fmt, db |-> db, ok |-> r.ok, rows |-> r.rows, src |-> kv,
     dst |-> DATA, imported |-> "no"]

\* commands::export_json / commands::export_csv of a space of the store.
LibExport(fmt, db) ==
    /\ file.by = "none"
    /\ LET r == IF fmt = "json" THEN CommandsExportJson(store, db)
                ELSE CommandsExportCsv(store, db)
       IN  file' = Exported("lib", fmt, db, r, OpenForRead(store, db).kv)
    /\ UNCHANGED <<store, txn, undo, last, ended, db_names, selected, scan, thr, ui, jobs, wk, reg>>

\* commands::import_json / commands::import_csv of the file, under the live
\* writer.
ImportUnderWriter(db) ==
    /\ LET r == IF file.fmt = "json"
                THEN CommandsImportJson(txn.view, undo, db, file.rows)
                ELSE CommandsImportCsv(txn.view, undo, db, file.rows)
       IN  /\ txn' = [txn EXCEPT !.view = r.view, !.post = PostOf(r)]
           /\ undo' = r.undo
           /\ file' = [file EXCEPT !.dst = db,
                                   !.imported = IF r.ok THEN "ok" ELSE "err"]
           /\ last' = [call |-> "import", res |-> IF r.ok THEN "ok" ELSE "err"]
    /\ UNCHANGED <<store, ended, db_names, selected, scan, thr, ui, jobs, wk, reg>>

\* The import of a file commands::export_* wrote, into a space that holds no
\* entry.
LibImport(db) ==
    /\ Live
    /\ file.by = "lib" /\ file.ok /\ file.imported = "no"
    /\ txn.view.named[db].kv = NoEntries
    /\ ImportUnderWriter(db)

\* The `export` subcommand: io::export_json / io::export_csv.
CliExport(fmt, db) ==
    /\ file.by = "none"
    /\ LET r == IF fmt = "json" THEN IoExportJson(store, db) ELSE IoExportCsv(store, db)
       IN  file' = Exported("cli", fmt, db, r, store.named[db].kv)
    /\ UNCHANGED <<store, txn, undo, last, ended, db_names, selected, scan, thr, ui, jobs, wk, reg>>

\* The space is cleared between export and import (Database::clear and a
\* commit).
Clear(db) ==
    /\ ~Live
    /\ file.by = "cli" /\ file.ok /\ file.imported = "no"
    /\ store.named[db].exists
    /\ store' = [store EXCEPT !.named[db].kv = NoEntries]
    /\ ended' = [how |-> "commit", expect |-> store', dirty |-> store' # store]
    /\ last' = [call |-> "clear", res |-> "ok"]
    /\ UNCHANGED <<txn, undo, db_names, selected, scan, file, thr, ui, jobs, wk, reg>>

\* io::import_json and io::import_csv: a writer of their own, the space must
\* exist, every record is put (import_json parses the whole document first
\* and writes serde_json::to_vec of the record's value, which is the text the
\* document holds; import_csv reads without a header and takes "" for a
\* missing value), commit.  Every `?` drops the writer, which aborts it.
IoImport(st, db, fmt, rows) ==
    IF ~st.named[db].exists \/ (fmt = "json" /\ ~JsonDocumentParses(rows))
    THEN [ok |-> FALSE, store |-> Discarded([NoTxn EXCEPT !.view = st, !.base = st])]
    ELSE LET r == IoPutAll(st.named[db].kv, rows, 1,
                           IF fmt = "json" \/ rows = <<>> THEN 2 ELSE Len(rows[1]))
             t == [NoTxn EXCEPT !.view = [st EXCEPT !.named[db].kv = r.kv], !.base = st]
         IN  [ok |-> r.ok, store |-> IF r.ok THEN Published(t) ELSE Discarded(t)]

\* The `import` subcommand: io::import_json / io::import_csv, which begin and
\* commit a writer of their own.
ImportByCli(db) ==
    /\ LET r == IoImport(store, db, file.fmt, file.rows)
       IN  /\ store' = r.store
           /\ ended' = [how |-> IF r.ok THEN "commit" ELSE "abort", expect |-> r.store,
                        dirty |-> Dirty(r.store, store)]
           /\ file' = [file EXCEPT !.dst = db,
                                   !.imported = IF r.ok THEN "ok" ELSE "err"]
           /\ last' = [call |-> "import", res |-> IF r.ok THEN "ok" ELSE "err"]
    /\ UNCHANGED <<txn, undo, db_names, selected, scan, thr, ui, jobs, wk, reg>>

\* The import of a file the `export` subcommand wrote.
CliImport(db) ==
    /\ ~Live                     \* Txn::begin waits for the writer
    /\ file.by = "cli" /\ file.ok /\ file.imported = "no"
    /\ ImportByCli(db)

CodecNext ==
    \/ \E fmt \in {"json", "csv"}, db \in Names : LibExport(fmt, db)
    \/ TxnBegin
    \/ \E db \in Names : LibImport(db)
    \/ TxnCommit
    \/ TxnAbort
    \/ \E fmt \in {"json", "csv"}, db \in Names : CliExport(fmt, db)
    \/ \E db \in Names : Clear(db)
    \/ \E db \in Names : CliImport(db)

SpecCodec == CodecInit /\ [][CodecNext]_vars

(***************************************************************************)
(* Imports of files that were not exported by the program (SpecImport):    *)
(* streams of records some of which are bad.                               *)
(***************************************************************************)
MaxRecords == 3     \* records of an imported file

\* A record is its fields: a key and a value text.  The value is the base64
\* of "2" or a text that is no base64; the key may be empty; a record may
\* lack its value.
ImportRecords ==
    {<<k, v>> : k \in {<<>>, <<1>>, <<2>>}, v \in {B64Encode(<<50>>), <<1>>}}
    \cup {<< <<1>> >>}

ImportStreams == SeqsUpTo(ImportRecords, MaxRecords)

\* The environments imported into: no space, or "data" holding one entry.
ImportEnvs ==
    { EmptyEnv,
      [EmptyEnv EXCEPT !.named[DATA] = [EmptySpace EXCEPT !.kv[<<1>>] = Some(<<49>>)]] }

ImportInit ==
    /\ store \in ImportEnvs
    /\ txn = NoTxn
    /\ undo = NewUndoStack
    /\ last = [call |-> "none", res |-> "none"]
    /\ ended = [how |-> "none", expect |-> store, dirty |-> FALSE]
    /\ db_names = list_databases(store)
    /\ selected = 0
    /\ scan = ScanIdle
    /\ \E fmt \in {"json", "csv"}, rows \in ImportStreams :
           file = [NoFile EXCEPT !.by = "user", !.fmt = fmt, !.ok = TRUE, !.rows = rows]
    /\ thr = ThreadsIdle
    /\ ui = UiIdle
    /\ jobs = NoJobs
    /\ wk = NoWorker
    /\ reg = NoRegistry

\* commands::import_json / commands::import_csv of the stream, under the
\* caller's writer.
StreamImport(db) ==
    /\ Live
    /\ file.by = "user" /\ file.imported = "no"
    /\ ImportUnderWriter(db)

\* io::import_json / io::import_csv of the stream.
StreamCliImport(db) ==
    /\ ~Live
    /\ file.by = "user" /\ file.imported = "no"
    /\ ImportByCli(db)

ImportNext ==
    \/ TxnBegin
    \/ StreamImport(DATA)
    \/ TxnCommit
    \/ TxnAbort
    \/ StreamCliImport(DATA)

SpecImport == ImportInit /\ [][ImportNext]_vars

(***************************************************************************)
(* The writers (SpecWriters): the foreground thread and the gRPC put and   *)
(* delete handlers, each taking a writer of its own with Txn::begin.  A    *)
(* thread is idle, inside Txn::begin ("begin"), parked inside it on the    *)
(* environment's writer lock ("blocked"), holding its Txn ("txn"), or past *)
(* its kv call and about to commit ("ok") or abort ("err").                *)
(***************************************************************************)
RpcThreads == Threads \ {"fg"}

\* The threads that hold a Txn obtained from Txn::begin.
Holders == {t \in Threads : thr.pc[t] \in {"txn", "ok", "err"}}

\* env.write_txn() hands out the writer only when no writer is live.
WriterFree_Always(w) == TRUE

WriterFree(w) == ~w.live

WritersInit ==
    /\ store \in InitEnvs
    /\ txn = NoTxn
    /\ undo = NewUndoStack
    /\ last = [call |-> "none", res |-> "none"]
    /\ ended = [how |-> "none", expect |-> store, dirty |-> FALSE]
    /\ db_names = list_databases(store)
    /\ selected = 0
    /\ scan = ScanIdle
    /\ file = NoFile
    /\ \E ro \in BOOLEAN : thr = [ThreadsIdle EXCEPT !.read_only = ro]
    /\ ui = UiIdle
    /\ jobs = NoJobs
    /\ wk = NoWorker
    /\ reg = NoRegistry

\* A thread calls Txn::begin: a gRPC handler on every request, the foreground
\* thread when the dialog is confirmed on a listed space.
CallBegin(t) ==
    /\ thr.pc[t] = "idle"
    /\ t = "fg" => (db_names # <<>> /\ Len(undo.ops) < MaxOps)
    /\ thr' = [thr EXCEPT !.pc[t] = "begin", !.res[t] = "none", !.busy[t] = FALSE]
    /\ UNCHANGED <<store, txn, undo, last, ended, db_names, selected, scan, file, ui, jobs, wk, reg>>

\* env.write_txn() on an environment opened for writing finds the writer
\* taken: the thread waits on the writer lock.
BeginBlocks(t) ==
    /\ thr.pc[t] = "begin"
    /\ ~thr.read_only
    /\ ~WriterFree(txn)
    /\ thr' = [thr EXCEPT !.pc[t] = "blocked", !.busy[t] = TRUE]
    /\ UNCHANGED <<store, txn, undo, last, ended, db_names, selected, scan, file, ui, jobs, wk, reg>>

\* Txn::begin returns: an error on an environment opened read-only, else the
\* writer once it is free.
BeginReturns(t) ==
    /\ thr.pc[t] \in {"begin", "blocked"}
    /\ IF thr.read_only
       THEN /\ thr' = [thr EXCEPT !.pc[t] = "idle", !.res[t] = "err"]
            /\ UNCHANGED txn
       ELSE /\ WriterFree(txn)
            /\ txn' = [live |-> TRUE, view |-> store, base |-> store, post |-> store,
                       fresh |-> undo.ops = <<>>]
            /\ thr' = [thr EXCEPT !.pc[t] = "txn", !.res[t] = "ok"]
    /\ UNCHANGED <<store, undo, last, ended, db_names, selected, scan, file, ui, jobs, wk, reg>>

\* App::reduce(Action::ConfirmCreate) between Txn::begin and the commit or
\* abort: commands::put on db_names[selected].
FgPut(key, value) ==
    /\ thr.pc["fg"] = "txn"
    /\ LET r == CommandsPut(txn.view, undo, db_names[selected + 1], key, value)
       IN  /\ txn' = [txn EXCEPT !.view = r.view]
           /\ undo' = r.undo
           /\ thr' = [thr EXCEPT !.pc["fg"] = IF r.ok THEN "ok" ELSE "err"]
    /\ UNCHANGED <<store, last, ended, db_names, selected, scan, file, ui, jobs, wk, reg>>

\* AutomationService::put between Txn::begin and the commit or abort: kv::put.
RpcPut(t, db, key, value) ==
    /\ thr.pc[t] = "txn"
    /\ LET r == KvPut(txn.view, db, key, value)
       IN  /\ txn' = [txn EXCEPT !.view = r.view]
           /\ thr' = [thr EXCEPT !.pc[t] = IF r.ok THEN "ok" ELSE "err"]
    /\ UNCHANGED <<store, undo, last, ended, db_names, selected, scan, file, ui, jobs, wk, reg>>

\* AutomationService::delete between Txn::begin and the commit or abort:
\* kv::delete.
RpcDelete(t, db, key) ==
    /\ thr.pc[t] = "txn"
    /\ LET r == KvDelete(txn.view, db, key)
       IN  /\ txn' = [txn EXCEPT !.view = r.view]
           /\ thr' = [thr EXCEPT !.pc[t] = IF r.ok THEN "ok" ELSE "err"]
    /\ UNCHANGED <<store, undo, last, ended, db_names, selected, scan, file, ui, jobs, wk, reg>>

\* The handler's txn.commit() after its call returned Ok.
Commit(t) ==
    /\ thr.pc[t] = "ok"
    /\ store' = Published(txn)
    /\ txn' = NoTxn
    /\ thr' = [thr EXCEPT !.pc[t] = "idle"]
    /\ UNCHANGED <<undo, last, ended, db_names, selected, scan, file, ui, jobs, wk, reg>>

\* The handler's txn.abort() after its call returned Err.
Abort(t) ==
    /\ thr.pc[t] = "err"
    /\ store' = Discarded(txn)
    /\ txn' = NoTxn
    /\ thr' = [thr EXCEPT !.pc[t] = "idle"]
    /\ UNCHANGED <<undo, last, ended, db_names, selected, scan, file, ui, jobs, wk, reg>>

WritersNext ==
    \/ \E t \in Threads : CallBegin(t)
    \/ \E t \in Threads : BeginBlocks(t)
    \/ \E t \in Threads : BeginReturns(t)
    \/ \E key \in KvKeys \ {<<>>}, value \in KvValues : FgPut(key, value)
    \/ \E t \in RpcThreads, db \in Names, key \in KvKeys, value \in KvValues :
           RpcPut(t, db, key, value)
    \/ \E t \in RpcThreads, db \in Names, key \in KvKeys : RpcDelete(t, db, key)
    \/ \E t \in Threads : Commit(t)
    \/ \E t \in Threads : Abort(t)

SpecWriters == WritersInit /\ [][WritersNext]_vars

(***************************************************************************)
(* The interactive loop (SpecLoop): run of app.rs reads a key, maps it to  *)
(* an Action for the current view and calls App::reduce; `?` on a failing  *)
(* call returns the error from run, which ends the loop.                   *)
(***************************************************************************)
DEFAULT_ENTRY_LIMIT == 100
DEFAULT_PAGE_SIZE == 100

\* The texts the user sets out to type in the query view.
QueryTexts ==
    { <<"a", "a">>,
      <<"p", "r", "e", "f", "i", "x", " ", "a">>,
      <<"r", "a", "n", "g", "e", " ", "a", " ", "a">>,
      <<"r", "e", "g", "e", "x", " ", "a">>,
      <<"r", "e", "g", "e", "x", " ", "(", "a", ")">> }

Typable(t) == \E q \in QueryTexts : starts_with(q, t)

QueryChars == UNION {{q[i] : i \in 1..Len(q)} : q \in QueryTexts}

\* The rank of a character of a query text among the characters of the keys
\* (a is 1, b is 2): 0 sorts before them and 3 after them.
CharCode(c) ==
    CASE c = "a" -> 1
      [] c = "b" -> 2
      [] c \in {" ", "(", ")", ".", "$"} -> 0
      [] OTHER -> 3

\* The Mode parse_query returned, over the keys of the model.
ScanModeOf(m) ==
    LET codes(t) == [i \in 1..Len(t) |-> CharCode(t[i])]
    IN  CASE m.kind = "Prefix" -> ModePrefix(codes(m.a))
          [] m.kind = "Range" -> ModeRange(codes(m.a), codes(m.b))
          [] m.kind = "Regex" -> ModeRegex(codes(m.a))
          [] OTHER -> ModeJsonPath(IF m.a = <<"$">> THEN "$" ELSE "$.x")

\* App::current_view: the top of the view stack, Main when it is empty.
current_view(app) == IF app.view = <<>> THEN "Main" ELSE app.view[Len(app.view)]

saturating_sub(a, b) == IF a >= b THEN a - b ELSE 0

\* App::update_query_results with pages of page_size entries: what it returns
\* and the App it leaves.
update_query_results_paged(app, page_size) ==
    LET db == db_names[selected + 1]
        loading == [app EXCEPT !.query_loading = TRUE]
        parsed == parse_query(app.query)
        mode == ScanModeOf(parsed)
        n == count_matches(store, db, mode)
        page == scan_paginated(store, db, mode, app.page_offset, page_size)
    IN  IF db_names = <<>>
        THEN [ok |-> TRUE, app |-> [app EXCEPT !.entries = <<>>, !.total_entries = 0]]
        ELSE IF ~parsed.ok THEN [ok |-> FALSE, app |-> loading]
        ELSE IF ~n.ok THEN [ok |-> FALSE, app |-> loading]
        ELSE IF ~page.ok
        THEN [ok |-> FALSE, app |-> [loading EXCEPT !.total_entries = n.count]]
        ELSE [ok |-> TRUE,
              app |-> [app EXCEPT !.query_loading = FALSE,
                                  !.total_entries = n.count,
                                  !.entries = page.items,
                                  !.query_cursor =
                                      IF app.query_cursor >= Len(page.items)
                                      THEN saturating_sub(Len(page.items), 1)
                                      ELSE app.query_cursor]]

\* App::update_query_results
update_query_results(app) == update_query_results_paged(app, DEFAULT_PAGE_SIZE)

\* What run does with the Result of a key's handler: on Err, `?` returns it
\* and the loop is over.
AfterKey(r) ==
    IF r.ok THEN [r.app EXCEPT !.err = r.app.err, !.before = ui.view]
    ELSE [r.app EXCEPT !.err = TRUE, !.before = ui.view, !.running = FALSE,
                       !.failed = TRUE]

\* App::get_current_entry: the entry under the cursor of the Main or Query
\* view, for a dialog that of the view below it, and None in the others.
get_current_entry(app) ==
    LET cur == current_view(app)
        under == IF cur \in {"CreateEntry", "EditEntry", "DeleteConfirm"}
                 THEN IF Len(app.view) >= 2 THEN app.view[Len(app.view) - 1] ELSE "Main"
                 ELSE cur
    IN  IF under = "Main" /\ app.cursor < Len(app.entries)
        THEN Some(app.entries[app.cursor + 1])
        ELSE IF under = "Query" /\ app.query_cursor < Len(app.entries)
        THEN Some(app.entries[app.query_cursor + 1])
        ELSE None

\* run up to its loop: open_env, list_databases, App::new.
LoopInit ==
    /\ store \in InitEnvs
    /\ txn = NoTxn
    /\ undo = NewUndoStack
    /\ last = [call |-> "none", res |-> "none"]
    /\ ended = [how |-> "none", expect |-> store, dirty |-> FALSE]
    /\ db_names = list_databases(store)
    /\ selected = 0
    /\ scan = ScanIdle
    /\ file = NoFile
    /\ \E ro \in BOOLEAN : thr = [ThreadsIdle EXCEPT !.read_only = ro]
    /\ ui = [UiIdle EXCEPT
                !.running = TRUE,
                !.entries = IF db_names = <<>> THEN <<>>
                            ELSE list_entries(store, db_names[1], DEFAULT_ENTRY_LIMIT).items]
    /\ jobs = NoJobs
    /\ wk = NoWorker
    /\ reg = NoRegistry

\* The query key in the main view: Action::EnterQuery.
KeyEnterQuery ==
    /\ ui.running /\ current_view(ui) = "Main"
    /\ ui' = AfterKey([ok |-> TRUE,
                       app |-> [ui EXCEPT !.view = Append(ui.view, "Query"),
                                          !.query = <<>>, !.entries = <<>>,
                                          !.query_cursor = 0, !.total_entries = 0,
                                          !.page_offset = 0, !.query_loading = FALSE,
                                          !.err = FALSE]])
    /\ UNCHANGED <<store, txn, undo, last, ended, db_names, selected, scan, file, thr,
                   jobs, wk, reg>>

\* A character key in the query view: app.query.push(c), update_query_results()?
\* ('q' leaves the view, 'b' and 'B' are the bookmark keys).
KeyQueryChar(c) ==
    /\ ui.running /\ current_view(ui) = "Query"
    /\ c \notin {"q", "b", "B"}
    /\ Typable(Append(ui.query, c))
    /\ ui' = AfterKey(update_query_results(
                          [ui EXCEPT !.query = Append(ui.query, c), !.err = FALSE]))
    /\ UNCHANGED <<store, txn, undo, last, ended, db_names, selected, scan, file, thr,
                   jobs, wk, reg>>

\* Backspace in the query view: app.query.pop(), update_query_results()?
KeyQueryBackspace ==
    /\ ui.running /\ current_view(ui) = "Query"
    /\ ui' = AfterKey(update_query_results(
                          [ui EXCEPT !.query = IF ui.query = <<>> THEN <<>>
                                               ELSE SubSeq(ui.query, 1, Len(ui.query) - 1),
                                     !.err = FALSE]))
    /\ UNCHANGED <<store, txn, undo, last, ended, db_names, selected, scan, file, thr,
                   jobs, wk, reg>>

\* Esc: Action::ExitView.
KeyExitView ==
    /\ ui.running
    /\ LET popped == [ui EXCEPT !.view = SubSeq(ui.view, 1, Len(ui.view) - 1),
                                !.err = FALSE]
           listed == list_entries(store, db_names[selected + 1], 100)
       IN  ui' = IF Len(ui.view) = 1
                 THEN [ui EXCEPT !.running = FALSE, !.err = FALSE, !.before = ui.view]
                 ELSE IF current_view(popped) = "Main" /\ db_names # <<>>
                 THEN AfterKey([ok |-> listed.ok,
                                app |-> IF listed.ok
                                        THEN [popped EXCEPT !.entries = listed.items]
                                        ELSE popped])
                 ELSE AfterKey([ok |-> TRUE, app |-> popped])
    /\ UNCHANGED <<store, txn, undo, last, ended, db_names, selected, scan, file, thr,
                   jobs, wk, reg>>

\* 'c' in the main view, and the keys typed into the dialog:
\* ExecuteCommand(CommandId::CreateEntry).
KeyCreateEntry(key, value) ==
    /\ ui.running /\ current_view(ui) = "Main"
    /\ ui' = AfterKey([ok |-> TRUE,
                       app |-> [ui EXCEPT !.view = Append(ui.view, "CreateEntry"),
                                          !.dialog_key = key, !.dialog_value = value,
                                          !.err = FALSE]])
    /\ UNCHANGED <<store, txn, undo, last, ended, db_names, selected, scan, file, thr,
                   jobs, wk, reg>>

\* 'e' in the main view, and the keys typed into the value field:
\* ExecuteCommand(CommandId::EditEntry).
KeyEditEntry(value) ==
    /\ ui.running /\ current_view(ui) = "Main"
    /\ LET cur == get_current_entry(ui)
       IN  ui' = AfterKey([ok |-> TRUE,
                           app |-> IF IsSome(cur)
                                   THEN [ui EXCEPT !.view = Append(ui.view, "EditEntry"),
                                                   !.dialog_key = Unwrap(cur)[1],
                                                   !.dialog_value = value,
                                                   !.err = FALSE]
                                   ELSE [ui EXCEPT !.err = FALSE]])
    /\ UNCHANGED <<store, txn, undo, last, ended, db_names, selected, scan, file, thr,
                   jobs, wk, reg>>

\* 'd' in the main view: ExecuteCommand(CommandId::DeleteEntry).
KeyDeleteEntry ==
    /\ ui.running /\ current_view(ui) = "Main"
    /\ ui' = AfterKey([ok |-> TRUE,
                       app |-> IF IsSome(get_current_entry(ui))
                               THEN [ui EXCEPT !.view = Append(ui.view, "DeleteConfirm"),
                                               !.err = FALSE]
                               ELSE [ui EXCEPT !.err = FALSE]])
    /\ UNCHANGED <<store, txn, undo, last, ended, db_names, selected, scan, file, thr,
                   jobs, wk, reg>>

\* What Txn::begin returns to the foreground thread, the only caller here.
BeginFails == thr.read_only

\* Enter in a create or edit dialog: Action::ConfirmCreate and
\* Action::ConfirmEdit, the same code.
KeyConfirmPut ==
    /\ ui.running /\ current_view(ui) \in {"CreateEntry", "EditEntry"}
    /\ Len(undo.ops) < MaxOps
    /\ LET db == db_names[selected + 1]
           r == CommandsPut(store, undo, db, ui.dialog_key, ui.dialog_value)
           listed == list_entries(r.view, db, DEFAULT_ENTRY_LIMIT)
           closed == [ui EXCEPT !.view = SubSeq(ui.view, 1, Len(ui.view) - 1),
                                !.err = FALSE]
           found == {i \in 1..Len(listed.items) : listed.items[i][1] = ui.dialog_key}
           at == IF found = {} THEN ui.cursor ELSE (CHOOSE i \in found : TRUE) - 1
       IN  IF ui.dialog_key = <<>> \/ db_names = <<>>
           THEN /\ ui' = AfterKey([ok |-> TRUE, app |-> closed])
                /\ UNCHANGED <<store, undo>>
           ELSE IF BeginFails
           THEN /\ ui' = AfterKey([ok |-> FALSE, app |-> [ui EXCEPT !.err = FALSE]])
                /\ UNCHANGED <<store, undo>>
           ELSE IF r.ok
           THEN /\ store' = r.view
                /\ undo' = r.undo
                /\ ui' = AfterKey([ok |-> TRUE,
                                   app |-> IF listed.ok
                                           THEN [closed EXCEPT !.entries = listed.items,
                                                               !.cursor = at]
                                           ELSE closed])
           ELSE /\ ui' = AfterKey([ok |-> TRUE, app |-> [closed EXCEPT !.err = TRUE]])
                /\ undo' = r.undo
                /\ UNCHANGED store
    /\ UNCHANGED <<txn, last, ended, db_names, selected, scan, file, thr, jobs, wk, reg>>

\* Enter in the delete dialog: Action::ConfirmDelete.
KeyConfirmDelete ==
    /\ ui.running /\ current_view(ui) = "DeleteConfirm"
    /\ Len(undo.ops) < MaxOps
    /\ LET db == db_names[selected + 1]
           cur == get_current_entry(ui)
           r == CommandsDelete(store, undo, db, Unwrap(cur)[1])
           listed == list_entries(r.view, db, DEFAULT_ENTRY_LIMIT)
           closed == [ui EXCEPT !.view = SubSeq(ui.view, 1, Len(ui.view) - 1),
                                !.err = FALSE]
       IN  IF cur = None \/ db_names = <<>>
           THEN /\ ui' = AfterKey([ok |-> TRUE, app |-> closed])
                /\ UNCHANGED <<store, undo>>
           ELSE IF BeginFails
           THEN /\ ui' = AfterKey([ok |-> FALSE, app |-> [ui EXCEPT !.err = FALSE]])
                /\ UNCHANGED <<store, undo>>
           ELSE IF r.ok
           THEN /\ store' = r.view
                /\ undo' = r.undo
                /\ ui' = AfterKey([ok |-> TRUE,
                                   app |-> IF listed.ok
                                           THEN [closed EXCEPT
                                                    !.entries = listed.items,
                                                    !.cursor =
                                                        IF ui.cursor >= Len(listed.items)
                                                           /\ listed.items # <<>>
                                                        THEN Len(listed.items) - 1
                                                        ELSE ui.cursor]
                                           ELSE closed])
           ELSE /\ ui' = AfterKey([ok |-> TRUE, app |-> [closed EXCEPT !.err = TRUE]])
                /\ undo' = r.undo
                /\ UNCHANGED store
    /\ UNCHANGED <<txn, last, ended, db_names, selected, scan, file, thr, jobs, wk, reg>>

LoopNext ==
    \/ KeyEnterQuery
    \/ \E c \in QueryChars : KeyQueryChar(c)
    \/ KeyQueryBackspace
    \/ KeyExitView
    \/ \E key \in KvKeys, value \in KvValues : KeyCreateEntry(key, value)
    \/ \E value \in KvValues : KeyEditEntry(value)
    \/ KeyDeleteEntry
    \/ KeyConfirmPut
    \/ KeyConfirmDelete

SpecLoop == LoopInit /\ [][LoopNext]_vars

(***************************************************************************)
(* The stats worker (SpecJobs): jobs/mod.rs and its consumer in app.rs.    *)
(* Two threads: the foreground, which sends requests, takes results with   *)
(* try_recv and drops the queue; and the worker thread, which receives a   *)
(* job, runs it as a blocking task, and sends the result or logs the       *)
(* failure.  Every job carries the number of its request, which its result *)
(* keeps: the numbers are not in the program, they tell the requests apart.*)
(***************************************************************************)
JobEnv(id) == [kind |-> "Env", name |-> "", id |-> id]
JobDb(name, id) == [kind |-> "Db", name |-> name, id |-> id]
NoJob == [kind |-> "none", name |-> "", id |-> 0]

Count(kv) == Cardinality({k \in KeySet : IsSome(kv[k])})

\* stats::env_stats: a snapshot of env.info(); it cannot fail.
env_stats(st) == [of |-> "env", entries |-> 0]

\* stats::db_stats: the root for "(unnamed)" (its entries include one record
\* per named space), else the named space, an error when it does not exist.
\* `of` is the space the snapshot was taken of.
db_stats(st, name) ==
    IF name = UNNAMED
    THEN [ok |-> TRUE,
          stats |-> [of |-> name,
                     entries |-> Count(st.root)
                                 + Cardinality({n \in Names : st.named[n].exists})]]
    ELSE IF st.named[name].exists
    THEN [ok |-> TRUE, stats |-> [of |-> name, entries |-> Count(st.named[name].kv)]]
    ELSE [ok |-> FALSE, stats |-> [of |-> name, entries |-> 0]]

\* JobQueue::new: both channels empty, the worker in rx.recv().
NewJobQueue ==
    [sender |-> TRUE, req |-> <<>>, worker |-> "recv", job |-> NoJob, res |-> <<>>,
     receiver |-> TRUE, dropping |-> FALSE, joined |-> FALSE, next |-> 1,
     asked |-> <<>>, send_err |-> FALSE, out |-> <<>>, logged |-> {},
     at_drop |-> {}, env_stats |-> None, db_stats |-> None]

\* sender.send(job) on the unbounded request channel: Ok while the worker's
\* receiver exists, an error (which the caller returns) once it is gone.
Send_DropsWhenBusy(q, job) ==
    IF q.req # <<>>
    THEN [q EXCEPT !.next = q.next + 1, !.asked = Append(q.asked, job)]
    ELSE [q EXCEPT !.req = Append(q.req, job), !.next = q.next + 1,
                   !.asked = Append(q.asked, job)]

Send(q, job) ==
    IF q.worker = "exited"
    THEN [q EXCEPT !.send_err = TRUE, !.next = q.next + 1,
                   !.asked = Append(q.asked, job)]
    ELSE [q EXCEPT !.req = Append(q.req, job), !.next = q.next + 1,
                   !.asked = Append(q.asked, job)]

\* request_env_stats
request_env_stats(q) == IF q.sender THEN Send(q, JobEnv(q.next)) ELSE q

\* request_db_stats
request_db_stats(q, name) == IF q.sender THEN Send(q, JobDb(name, q.next)) ELSE q

\* Environments with one or two listed spaces, besides those of InitEnvs.
JobEnvs ==
    InitEnvs \cup
    { [EmptyEnv EXCEPT !.named[DATA] = [EmptySpace EXCEPT !.kv[<<1>>] = Some(<<2>>)],
                       !.named[UNNAMED] = EmptySpace] }

\* run up to its loop: App::new makes the queue and requests the statistics
\* of the environment and of the first space.
JobsInit ==
    /\ store \in JobEnvs
    /\ txn = NoTxn
    /\ undo = NewUndoStack
    /\ last = [call |-> "none", res |-> "none"]
    /\ ended = [how |-> "none", expect |-> store, dirty |-> FALSE]
    /\ db_names = list_databases(store)
    /\ selected = 0
    /\ scan = ScanIdle
    /\ file = NoFile
    /\ thr = ThreadsIdle
    /\ ui = [UiIdle EXCEPT
                !.running = TRUE,
                !.entries = IF db_names = <<>> THEN <<>>
                            ELSE list_entries(store, db_names[1], DEFAULT_ENTRY_LIMIT).items]
    /\ jobs = IF db_names = <<>> THEN request_env_stats(NewJobQueue)
              ELSE request_db_stats(request_env_stats(NewJobQueue), db_names[1])
    /\ wk = NoWorker
    /\ reg = NoRegistry

\* The foreground still owns the queue and may send one more request.
MaySend == jobs.sender /\ ~jobs.dropping /\ jobs.next <= MaxJobs

\* What NextDb, PrevDb and JumpToDatabase do once `selected` is set.
SelectDb(i) ==
    /\ selected' = i
    /\ ui' = [ui EXCEPT !.entries = list_entries(store, db_names[i + 1],
                                                 DEFAULT_ENTRY_LIMIT).items,
                        !.cursor = 0]
    /\ jobs' = request_db_stats(jobs, db_names[i + 1])
    /\ UNCHANGED <<store, txn, undo, last, ended, db_names, scan, file, thr, wk, reg>>

\* App::reduce(Action::NextDb)
NextDb ==
    /\ MaySend /\ db_names # <<>>
    /\ SelectDb((selected + 1) % Len(db_names))

\* App::reduce(Action::PrevDb)
PrevDb ==
    /\ MaySend /\ db_names # <<>>
    /\ SelectDb(IF selected = 0 THEN Len(db_names) - 1 ELSE selected - 1)

\* App::reduce(Action::ExecuteCommand(CommandId::JumpToDatabase(idx)))
JumpToDatabase(idx) ==
    /\ MaySend /\ idx < Len(db_names)
    /\ SelectDb(idx)

\* JobQueue::request_env_stats, by any caller.
RequestEnv ==
    /\ MaySend
    /\ jobs' = request_env_stats(jobs)
    /\ UNCHANGED <<store, txn, undo, last, ended, db_names, selected, scan, file, thr,
                   ui, wk, reg>>

\* JobQueue::request_db_stats, by any caller and for any name.
RequestDb(name) ==
    /\ MaySend
    /\ jobs' = request_db_stats(jobs, name)
    /\ UNCHANGED <<store, txn, undo, last, ended, db_names, selected, scan, file, thr,
                   ui, wk, reg>>

\* App::process_background_jobs: takes every result the channel holds.
RECURSIVE Drain(_, _)
Drain(q, msgs) ==
    IF msgs = <<>> THEN q
    ELSE Drain(IF Head(msgs).kind = "Env"
               THEN [q EXCEPT !.env_stats = Some(Head(msgs).stats)]
               ELSE [q EXCEPT !.db_stats = Some(Head(msgs).stats)],
               Tail(msgs))

process_background_jobs ==
    /\ ~jobs.dropping
    /\ jobs.res # <<>>
    /\ jobs' = [Drain(jobs, jobs.res) EXCEPT !.res = <<>>]
    /\ UNCHANGED <<store, txn, undo, last, ended, db_names, selected, scan, file, thr,
                   ui, wk, reg>>

\* A receive that takes the request sent last.
WorkerRecv_TakesLast ==
    /\ jobs.worker = "recv"
    /\ jobs.req # <<>>
    /\ jobs' = [jobs EXCEPT !.worker = "run", !.job = jobs.req[Len(jobs.req)],
                            !.req = SubSeq(jobs.req, 1, Len(jobs.req) - 1)]
    /\ UNCHANGED <<store, txn, undo, last, ended, db_names, selected, scan, file, thr,
                   ui, wk, reg>>

\* The worker's rx.recv().await returns Some(job).
WorkerRecv ==
    /\ jobs.worker = "recv"
    /\ jobs.req # <<>>
    /\ jobs' = [jobs EXCEPT !.worker = "run", !.job = Head(jobs.req),
                            !.req = Tail(jobs.req)]
    /\ UNCHANGED <<store, txn, undo, last, ended, db_names, selected, scan, file, thr,
                   ui, wk, reg>>

\* Where the worker goes after a job that failed.
AfterFailure_Exits == "exited"

AfterFailure == "recv"

\* The blocking task ends: the result is sent (the send never blocks and its
\* error is ignored), or the failure is logged.
WorkerFinish ==
    /\ jobs.worker = "run"
    /\ LET j == jobs.job
           r == IF j.kind = "Env" THEN [ok |-> TRUE, stats |-> env_stats(store)]
                ELSE db_stats(store, j.name)
           msg == [kind |-> j.kind, name |-> j.name, stats |-> r.stats, id |-> j.id]
       IN  jobs' = IF r.ok
                   THEN [jobs EXCEPT !.worker = "recv", !.job = NoJob,
                                     !.res = IF jobs.receiver THEN Append(jobs.res, msg)
                                             ELSE jobs.res,
                                     !.out = Append(jobs.out, msg)]
                   ELSE [jobs EXCEPT !.worker = AfterFailure, !.job = NoJob,
                                     !.logged = jobs.logged \cup {j.id}]
    /\ UNCHANGED <<store, txn, undo, last, ended, db_names, selected, scan, file, thr,
                   ui, wk, reg>>

\* rx.recv() returns None: every sender is gone and the channel is empty.
RecvClosed_Never(q) == FALSE

RecvClosed(q) == ~q.sender /\ q.req = <<>>

\* The worker leaves its loop and its thread ends.
WorkerExit ==
    /\ jobs.worker = "recv"
    /\ RecvClosed(jobs)
    /\ jobs' = [jobs EXCEPT !.worker = "exited"]
    /\ UNCHANGED <<store, txn, undo, last, ended, db_names, selected, scan, file, thr,
                   ui, wk, reg>>

\* Drop for JobQueue, up to the join: self.sender.take().
DropQueue ==
    /\ ~jobs.dropping
    /\ jobs' = [jobs EXCEPT !.sender = FALSE, !.dropping = TRUE,
                            !.at_drop = {jobs.req[i].id : i \in 1..Len(jobs.req)}
                                        \cup (IF jobs.worker = "run" THEN {jobs.job.id}
                                              ELSE {})]
    /\ UNCHANGED <<store, txn, undo, last, ended, db_names, selected, scan, file, thr,
                   ui, wk, reg>>

\* handle.join() returns once the worker thread has ended; the fields of the
\* queue, its receiver among them, are dropped after it.
DropJoined ==
    /\ jobs.dropping /\ ~jobs.joined
    /\ jobs.worker = "exited"
    /\ jobs' = [jobs EXCEPT !.joined = TRUE, !.receiver = FALSE, !.res = <<>>]
    /\ UNCHANGED <<store, txn, undo, last, ended, db_names, selected, scan, file, thr,
                   ui, wk, reg>>

WorkerStep == WorkerRecv \/ WorkerFinish \/ WorkerExit

JobsNext ==
    \/ NextDb
    \/ PrevDb
    \/ \E idx \in 0..1 : JumpToDatabase(idx)
    \/ RequestEnv
    \/ \E name \in Names : RequestDb(name)
    \/ process_background_jobs
    \/ WorkerRecv
    \/ WorkerFinish
    \/ WorkerExit
    \/ DropQueue
    \/ DropJoined

SpecJobs == JobsInit /\ [][JobsNext]_vars

\* The worker thread is scheduled, and so is the thread that joins it.
SpecJobsLive == SpecJobs /\ WF_vars(WorkerStep) /\ WF_vars(DropJoined)

(***************************************************************************)
(* The generic Worker (SpecWorker): worker.rs.  Callers run                *)
(* Worker::request concurrently; each call makes a oneshot channel, named  *)
(* here by the caller and the number of its call, sends the request with   *)
(* the oneshot's sender on the bounded channel, and awaits the oneshot.    *)
(* The task takes one job at a time, awaits the handler and sends the      *)
(* result on the job's oneshot.  A caller that drops the future of its     *)
(* call has given up; its oneshot receiver is gone.                        *)
(***************************************************************************)
Callers == {"c1", "c2"}
Reqs == {1, 2}
Buffer == 1               \* the `buffer` the Worker was started with

\* The handler is FnMut: what it returns for a request may depend on how many
\* requests it has served.
Handler(req, served) == [req |-> req, nth |-> served + 1]

NoCall == [pc |-> "idle", call |-> 0, req |-> 0, slot |-> None, ret |-> None]

\* Worker::start: the channel is empty, the task in rx.recv().
NewWorker ==
    [chan |-> <<>>, task |-> "recv", cur |-> [req |-> 0, caller |-> "", call |-> 0],
     served |-> 0, callers |-> [c \in Callers |-> NoCall], computed |-> {},
     delivered |-> <<>>, gave_up |-> {}]

WorkerInit ==
    /\ store = EmptyEnv
    /\ txn = NoTxn
    /\ undo = NewUndoStack
    /\ last = [call |-> "none", res |-> "none"]
    /\ ended = [how |-> "none", expect |-> store, dirty |-> FALSE]
    /\ db_names = list_databases(store)
    /\ selected = 0
    /\ scan = ScanIdle
    /\ file = NoFile
    /\ thr = ThreadsIdle
    /\ ui = UiIdle
    /\ jobs = NoJobs
    /\ wk = NewWorker
    /\ reg = NoRegistry

\* Worker::request is called: the oneshot of this call is made.
CallRequest(c, req) ==
    /\ wk.callers[c].pc = "idle"
    /\ wk.callers[c].call < MaxCalls
    /\ wk' = [wk EXCEPT !.callers[c] =
                 [pc |-> "sending", call |-> wk.callers[c].call + 1, req |-> req,
                  slot |-> None, ret |-> None]]
    /\ UNCHANGED <<store, txn, undo, last, ended, db_names, selected, scan, file, thr,
                   ui, jobs, reg>>

\* self.tx.send(job).await completes once the channel has room.
SendJob(c) ==
    /\ wk.callers[c].pc = "sending"
    /\ Len(wk.chan) < Buffer
    /\ wk' = [wk EXCEPT !.chan = Append(wk.chan, [req |-> wk.callers[c].req,
                                                  caller |-> c,
                                                  call |-> wk.callers[c].call]),
                        !.callers[c].pc = "waiting"]
    /\ UNCHANGED <<store, txn, undo, last, ended, db_names, selected, scan, file, thr,
                   ui, jobs, reg>>

\* The caller drops the future of its call while it waits.
GiveUp(c) ==
    /\ wk.callers[c].pc \in {"sending", "waiting"}
    /\ wk' = [wk EXCEPT !.callers[c].pc = "idle", !.callers[c].slot = None,
                        !.gave_up = wk.gave_up \cup {<<c, wk.callers[c].call>>}]
    /\ UNCHANGED <<store, txn, undo, last, ended, db_names, selected, scan, file, thr,
                   ui, jobs, reg>>

\* The task's rx.recv().await returns a job and the handler is called.
TaskRecv ==
    /\ wk.task = "recv"
    /\ wk.chan # <<>>
    /\ wk' = [wk EXCEPT !.task = "handling", !.cur = Head(wk.chan), !.chan = Tail(wk.chan)]
    /\ UNCHANGED <<store, txn, undo, last, ended, db_names, selected, scan, file, thr,
                   ui, jobs, reg>>

\* The oneshot a response is sent on has a receiver: the caller of the job
\* still awaits the call the job was sent by.
Receiving_AnyCall(job) == wk.callers[job.caller].pc = "waiting"

Receiving(job) ==
    wk.callers[job.caller].pc = "waiting" /\ wk.callers[job.caller].call = job.call

\* handler(req).await is done; `let _ = resp.send(result)`.
TaskRespond ==
    /\ wk.task = "handling"
    /\ LET job == wk.cur
           result == Handler(job.req, wk.served)
       IN  wk' = [wk EXCEPT
                     !.task = "recv",
                     !.served = wk.served + 1,
                     !.computed = wk.computed \cup
                                  {[caller |-> job.caller, call |-> job.call,
                                    req |-> job.req, val |-> result]},
                     !.callers[job.caller].slot =
                         IF Receiving(job) THEN Some(result)
                         ELSE wk.callers[job.caller].slot,
                     !.delivered =
                         IF Receiving(job)
                         THEN Append(wk.delivered, <<job.caller, wk.callers[job.caller].call>>)
                         ELSE wk.delivered]
    /\ UNCHANGED <<store, txn, undo, last, ended, db_names, selected, scan, file, thr,
                   ui, jobs, reg>>

\* rx.await returns the response and Worker::request returns it.
Return(c) ==
    /\ wk.callers[c].pc = "waiting"
    /\ IsSome(wk.callers[c].slot)
    /\ wk' = [wk EXCEPT !.callers[c].pc = "idle",
                        !.callers[c].ret = wk.callers[c].slot,
                        !.callers[c].slot = None]
    /\ UNCHANGED <<store, txn, undo, last, ended, db_names, selected, scan, file, thr,
                   ui, jobs, reg>>

WorkerNext ==
    \/ \E c \in Callers, req \in Reqs : CallRequest(c, req)
    \/ \E c \in Callers : SendJob(c)
    \/ \E c \in Callers : GiveUp(c)
    \/ TaskRecv
    \/ TaskRespond
    \/ \E c \in Callers : Return(c)

SpecWorker == WorkerInit /\ [][WorkerNext]_vars

(***************************************************************************)
(* The plug-in registry (SpecPlugins): plugins.rs, and decode_value of     *)
(* db/query.rs with it.  DECODERS is a Vec behind an RwLock.  A thread     *)
(* registers a decoder (write lock, push, unlock; the push is two steps,   *)
(* between which the new element is not whole) or decodes an input (JSON,  *)
(* MessagePack, then the registered decoders in order under the read lock, *)
(* one decoder a step).                                                    *)
(***************************************************************************)
PlugThreads == {"t1", "t2", "t3"}
Plugins == {"pA", "pB"}

\* The inputs decoded: "" , "1", 0xc1 and 0xc1 "1"; JSON accepts "1" (so does
\* MessagePack, as the fixint 49), neither accepts the others.
DecodeInputs == {<<>>, <<49>>, <<193>>, <<193, 49>>}

\* Two decoders a user registers: pA accepts what starts with 0xc1, pB what
\* is not one octet long.
PluginAccepts(d, b) ==
    IF d = "pA" THEN b # <<>> /\ b[1] = 193 ELSE Len(b) # 1

PluginDecode(d, b) ==
    IF PluginAccepts(d, b) THEN [ok |-> TRUE, by |-> d, value |-> b]
    ELSE [ok |-> FALSE, by |-> "none", value |-> <<>>]

Undecodable == [ok |-> FALSE, by |-> "none", value |-> <<>>]

NoDecode ==
    [pc |-> "idle", input |-> <<>>, i |-> 0, start |-> <<>>, result |-> Undecodable,
     done |-> FALSE, torn |-> FALSE, dec |-> ""]

\* DECODERS at its first use: an empty Vec, the lock free.
NewRegistry ==
    [list |-> <<>>, writer |-> "none", readers |-> {}, prev |-> <<>>,
     th |-> [t \in PlugThreads |-> NoDecode]]

PluginsInit ==
    /\ store = EmptyEnv
    /\ txn = NoTxn
    /\ undo = NewUndoStack
    /\ last = [call |-> "none", res |-> "none"]
    /\ ended = [how |-> "none", expect |-> store, dirty |-> FALSE]
    /\ db_names = list_databases(store)
    /\ selected = 0
    /\ scan = ScanIdle
    /\ file = NoFile
    /\ thr = ThreadsIdle
    /\ ui = UiIdle
    /\ jobs = NoJobs
    /\ wk = NoWorker
    /\ reg = NewRegistry

\* RwLock::read returns when no writer holds the lock.
ReadLockFree_Always(r) == TRUE

ReadLockFree(r) == r.writer = "none"

\* RwLock::write returns when nobody holds the lock.
WriteLockFree(r) == r.writer = "none" /\ r.readers = {}

\* register_decoder is called.
CallRegister(t, d) ==
    /\ reg.th[t].pc = "idle"
    /\ Len(reg.list) + Cardinality({u \in PlugThreads : reg.th[u].pc = "want_write"})
           < MaxDecoders
    /\ reg' = [reg EXCEPT !.th[t] = [NoDecode EXCEPT !.pc = "want_write", !.dec = d],
                          !.prev = reg.list]
    /\ UNCHANGED <<store, txn, undo, last, ended, db_names, selected, scan, file, thr,
                   ui, jobs, wk>>

\* DECODERS.write() is granted and the push begins: the new element is in
\* the Vec but not yet whole.
PushBegins(t) ==
    /\ reg.th[t].pc = "want_write"
    /\ WriteLockFree(reg)
    /\ reg' = [reg EXCEPT !.writer = t, !.th[t].pc = "pushing", !.prev = reg.list,
                          !.list = Append(reg.list, [dec |-> reg.th[t].dec,
                                                     whole |-> FALSE])]
    /\ UNCHANGED <<store, txn, undo, last, ended, db_names, selected, scan, file, thr,
                   ui, jobs, wk>>

\* The push is complete and the write guard is dropped.
PushEnds(t) ==
    /\ reg.th[t].pc = "pushing"
    /\ reg' = [reg EXCEPT !.writer = "none", !.th[t].pc = "idle", !.prev = reg.list,
                          !.list[Len(reg.list)].whole = TRUE]
    /\ UNCHANGED <<store, txn, undo, last, ended, db_names, selected, scan, file, thr,
                   ui, jobs, wk>>

\* decode_value is called: the built-in decoders, which need no lock.
CallDecode(t, b) ==
    /\ reg.th[t].pc = "idle"
    /\ reg' = [reg EXCEPT !.prev = reg.list,
                          !.th[t] = IF decode_value(b).ok
                                    THEN [NoDecode EXCEPT !.input = b, !.done = TRUE,
                                                          !.start = reg.list,
                                                          !.result = decode_value(b)]
                                    ELSE [NoDecode EXCEPT !.input = b,
                                                          !.pc = "want_read"]]
    /\ UNCHANGED <<store, txn, undo, last, ended, db_names, selected, scan, file, thr,
                   ui, jobs, wk>>

\* decode_with_plugins: DECODERS.read() is granted.
ReadBegins(t) ==
    /\ reg.th[t].pc = "want_read"
    /\ ReadLockFree(reg)
    /\ reg' = [reg EXCEPT !.readers = reg.readers \cup {t}, !.prev = reg.list,
                          !.th[t].pc = "iter", !.th[t].i = 1, !.th[t].start = reg.list]
    /\ UNCHANGED <<store, txn, undo, last, ended, db_names, selected, scan, file, thr,
                   ui, jobs, wk>>

\* One turn of the loop of decode_with_plugins; at the end of the Vec, or at
\* the first decoder that accepts, the read guard is dropped and
\* decode_value returns.
IterStep(t) ==
    /\ reg.th[t].pc = "iter"
    /\ LET me == reg.th[t]
           at_end == me.i > Len(reg.list)
           r == PluginDecode(reg.list[me.i].dec, me.input)
           leave(res, torn) ==
               [reg EXCEPT !.readers = reg.readers \ {t}, !.prev = reg.list,
                           !.th[t].pc = "idle", !.th[t].done = TRUE,
                           !.th[t].result = res, !.th[t].torn = torn]
       IN  reg' = IF at_end THEN leave(Undecodable, me.torn)
                  ELSE IF ~reg.list[me.i].whole THEN leave(Undecodable, TRUE)
                  ELSE IF r.ok THEN leave(r, me.torn)
                  ELSE [reg EXCEPT !.th[t].i = me.i + 1, !.prev = reg.list]
    /\ UNCHANGED <<store, txn, undo, last, ended, db_names, selected, scan, file, thr,
                   ui, jobs, wk>>

PluginsNext ==
    \/ \E t \in PlugThreads, d \in Plugins : CallRegister(t, d)
    \/ \E t \in PlugThreads : PushBegins(t)
    \/ \E t \in PlugThreads : PushEnds(t)
    \/ \E t \in PlugThreads, b \in DecodeInputs : CallDecode(t, b)
    \/ \E t \in PlugThreads : ReadBegins(t)
    \/ \E t \in PlugThreads : IterStep(t)

SpecPlugins == PluginsInit /\ [][PluginsNext]_vars

(***************************************************************************)
(* The query parser on its own (SpecParse): parse_query applied to query   *)
(* texts made of optional leading whitespace, a keyword or a near miss of  *)
(* one, and a body.                                                        *)
(***************************************************************************)
BodyChars == {" ", "a", "b", ".", "(", ")"}

QueryHeads ==
    { <<>>, KwPrefix, KwRange, KwRegex, KwJsonPath,
      <<"P", "r", "e", "f", "i", "x", " ">>,
      <<"p", "r", "e", "f", "i", "x">>,
      <<"r", "a", "n", "g", "e">> }

ParseInputs ==
    {lead \o head \o body :
        lead \in {<<>>, <<" ">>}, head \in QueryHeads, body \in SeqsUpTo(BodyChars, MaxBody)}

ParseInit ==
    /\ store = EmptyEnv
    /\ txn = NoTxn
    /\ undo = NewUndoStack
    /\ last = [call |-> "none", res |-> "none"]
    /\ ended = [how |-> "none", expect |-> store, dirty |-> FALSE]
    /\ db_names = list_databases(store)
    /\ selected = 0
    /\ scan = ScanIdle
    /\ file = NoFile
    /\ thr = ThreadsIdle
    /\ \E q \in ParseInputs : ui = [UiIdle EXCEPT !.query = q]
    /\ jobs = NoJobs
    /\ wk = NoWorker
    /\ reg = NoRegistry

\* parse_query(&self.query)
ParseQuery ==
    /\ last.call = "none"
    /\ last' = [call |-> "parse_query", res |-> parse_query(ui.query)]
    /\ UNCHANGED <<store, txn, undo, ended, db_names, selected, scan, file, thr, ui,
                   jobs, wk, reg>>

ParseNext == ParseQuery

SpecParse == ParseInit /\ [][ParseNext]_vars

(***************************************************************************)
(* App::reduce on its own (SpecReduce): the actions in any order, as a     *)
(* caller of the public reducer may send them.  The JobQueue requests of   *)
(* the reducer are left to SpecJobs.                                       *)
(***************************************************************************)
MaxDepth == 2       \* deepest view stack the actions are allowed to build
MaxEdits == 1       \* most puts and deletes the dialogs are allowed to log
MaxMarks == 1       \* most bookmarks, and most jumps recorded in the history

\* The environments the reducer runs on: no space at all, and the spaces
\* "(unnamed)" and "data" listed, where "data" holds two entries and the
\* root, which is what a reader of "(unnamed)" sees, two others.
ReduceEnvs ==
    { EmptyEnv,
      [EmptyEnv EXCEPT
          !.named[DATA] = [EmptySpace EXCEPT !.kv[<<1>>] = Some(<<1>>),
                                             !.kv[<<1, 2>>] = Some(<<2>>)],
          !.named[UNNAMED] = EmptySpace,
          !.root = [NoEntries EXCEPT ![<<2>>] = Some(<<1>>), ![<<2, 1>>] = Some(<<1>>)]] }

DialogKeys == {<<1, 1>>}

\* App::new
ReduceInit ==
    /\ store \in ReduceEnvs
    /\ txn = NoTxn
    /\ undo = NewUndoStack
    /\ last = [call |-> "none", res |-> "none"]
    /\ ended = [how |-> "none", expect |-> store, dirty |-> FALSE]
    /\ db_names = list_databases(store)
    /\ selected = 0
    /\ scan = ScanIdle
    /\ file = NoFile
    /\ thr = ThreadsIdle
    /\ ui = [UiIdle EXCEPT
                !.running = TRUE,
                !.entries = IF db_names = <<>> THEN <<>>
                            ELSE list_entries(store, db_names[1], DEFAULT_ENTRY_LIMIT).items]
    /\ jobs = NoJobs
    /\ wk = NoWorker
    /\ reg = NoRegistry

\* Vec::push and Vec::pop on the view stack.
PushView(app, v) == [app EXCEPT !.view = Append(app.view, v)]
PopView(app) ==
    IF app.view = <<>> THEN app
    ELSE [app EXCEPT !.view = SubSeq(app.view, 1, Len(app.view) - 1)]

MayPush == ui.running /\ Len(ui.view) < MaxDepth

\* What reduce returned: the action, and Ok or Err.
Reduced(call, ok) == [call |-> call, res |-> IF ok THEN "ok" ELSE "err"]

\* list_entries of a space by a read that other users of the environment can
\* make fail (the space was dropped, no reader slot is free).
Loaded(db, fails) ==
    IF fails THEN [ok |-> FALSE, items |-> <<>>]
    ELSE list_entries(store, db, DEFAULT_ENTRY_LIMIT)

\* The selection is moved to index i and then the entries are loaded with `?`.
SelectAndLoad(call, i, fails) ==
    LET l == Loaded(db_names[i + 1], fails)
    IN  /\ selected' = i
        /\ ui' = IF l.ok THEN [ui EXCEPT !.entries = l.items, !.cursor = 0] ELSE ui
        /\ last' = Reduced(call, l.ok)

\* Action::NextDb
ActionNextDb(fails) ==
    /\ ui.running /\ db_names # <<>>
    /\ SelectAndLoad("NextDb", (selected + 1) % Len(db_names), fails)
    /\ UNCHANGED <<store, txn, undo, ended, db_names, scan, file, thr, jobs, wk, reg>>

\* Action::PrevDb
ActionPrevDb(fails) ==
    /\ ui.running /\ db_names # <<>>
    /\ SelectAndLoad("PrevDb", IF selected = 0 THEN Len(db_names) - 1 ELSE selected - 1,
                     fails)
    /\ UNCHANGED <<store, txn, undo, ended, db_names, scan, file, thr, jobs, wk, reg>>

\* ExecuteCommand: the command palette is popped first.
PalettePopped(app) == IF current_view(app) = "CommandPalette" THEN PopView(app) ELSE app

\* Action::ExecuteCommand(CommandId::JumpToDatabase(idx))
ActionJumpToDatabase(idx) ==
    /\ ui.running /\ idx < Len(db_names)
    /\ LET l == Loaded(db_names[idx + 1], FALSE)
       IN  /\ selected' = idx
           /\ ui' = [PalettePopped(ui) EXCEPT !.entries = l.items, !.cursor = 0]
           /\ last' = Reduced("reduce", TRUE)
    /\ UNCHANGED <<store, txn, undo, ended, db_names, scan, file, thr, jobs, wk, reg>>

\* Action::NextEntry
ActionNextEntry ==
    /\ ui.running /\ current_view(ui) = "Main" /\ ui.entries # <<>>
    /\ ui' = [ui EXCEPT !.cursor = (ui.cursor + 1) % Len(ui.entries)]
    /\ last' = Reduced("reduce", TRUE)
    /\ UNCHANGED <<store, txn, undo, ended, db_names, selected, scan, file, thr, jobs,
                   wk, reg>>

\* Action::PrevEntry
ActionPrevEntry ==
    /\ ui.running /\ current_view(ui) = "Main" /\ ui.entries # <<>>
    /\ ui' = [ui EXCEPT !.cursor = IF ui.cursor = 0 THEN Len(ui.entries) - 1
                                   ELSE ui.cursor - 1]
    /\ last' = Reduced("reduce", TRUE)
    /\ UNCHANGED <<store, txn, undo, ended, db_names, selected, scan, file, thr, jobs,
                   wk, reg>>

\* Action::EnterQuery
ActionEnterQuery ==
    /\ MayPush
    /\ ui' = [PushView(ui, "Query") EXCEPT
                 !.query = <<>>, !.entries = <<>>, !.query_cursor = 0,
                 !.total_entries = 0, !.page_offset = 0, !.query_loading = FALSE]
    /\ last' = Reduced("reduce", TRUE)
    /\ UNCHANGED <<store, txn, undo, ended, db_names, selected, scan, file, thr, jobs,
                   wk, reg>>

\* Action::ExitView
ActionExitView ==
    /\ ui.running
    /\ LET popped == PopView(ui)
           l == Loaded(db_names[selected + 1], FALSE)
       IN  ui' = IF Len(ui.view) > 1
                 THEN IF current_view(popped) = "Main" /\ selected < Len(db_names)
                      THEN [popped EXCEPT !.entries = l.items]
                      ELSE popped
                 ELSE [ui EXCEPT !.running = FALSE]
    /\ last' = Reduced("reduce", TRUE)
    /\ UNCHANGED <<store, txn, undo, ended, db_names, selected, scan, file, thr, jobs,
                   wk, reg>>

\* Action::Undo and Action::Redo: with something to undo (to redo) the entries
\* are loaded again; the UndoStack and the store are not touched.
Reloaded ==
    IF selected < Len(db_names)
    THEN [ui EXCEPT !.entries = Loaded(db_names[selected + 1], FALSE).items]
    ELSE ui

ActionUndo ==
    /\ ui.running
    /\ ui' = IF can_undo(undo) THEN Reloaded ELSE ui
    /\ last' = Reduced("Undo", TRUE)
    /\ UNCHANGED <<store, txn, undo, ended, db_names, selected, scan, file, thr, jobs,
                   wk, reg>>

ActionRedo ==
    /\ ui.running
    /\ ui' = IF can_redo(undo) THEN Reloaded ELSE ui
    /\ last' = Reduced("Redo", TRUE)
    /\ UNCHANGED <<store, txn, undo, ended, db_names, selected, scan, file, thr, jobs,
                   wk, reg>>

\* App::current_key
current_key(app) ==
    LET e == get_current_entry(app)
    IN  IF current_view(app) = "Preview" THEN app.preview_key
        ELSE IF IsSome(e) THEN Some(Unwrap(e)[1]) ELSE None

\* JumpHistory::push
HistoryPush(h, mark) == Append(h, mark)

\* Action::ToggleBookmark
ActionToggleBookmark ==
    /\ ui.running
    /\ selected < Len(db_names) /\ IsSome(current_key(ui))
    /\ LET mark == <<db_names[selected + 1], Unwrap(current_key(ui))>>
       IN  IF mark \in ui.bookmarks
           THEN ui' = [ui EXCEPT !.bookmarks = ui.bookmarks \ {mark}]
           ELSE /\ Cardinality(ui.bookmarks) < MaxMarks
                /\ Len(ui.jump_history) < MaxMarks
                /\ ui' = [ui EXCEPT !.bookmarks = ui.bookmarks \cup {mark},
                                    !.jump_history = HistoryPush(ui.jump_history, mark)]
    /\ last' = Reduced("reduce", TRUE)
    /\ UNCHANGED <<store, txn, undo, ended, db_names, selected, scan, file, thr, jobs,
                   wk, reg>>

\* show_bookmarks_in_palette: the bookmarks, then the history entries that
\* are not bookmarked.
RECURSIVE NotBookmarked(_, _)
NotBookmarked(h, marks) ==
    IF h = <<>> THEN <<>>
    ELSE (IF Head(h) \in marks THEN <<>> ELSE <<Head(h)>>) \o NotBookmarked(Tail(h), marks)

show_bookmarks_in_palette(app) ==
    LET marked == IF app.bookmarks = {} THEN <<>> ELSE <<CHOOSE m \in app.bookmarks : TRUE>>
    IN  [app EXCEPT !.filtered_bookmarks = marked \o NotBookmarked(app.jump_history,
                                                                    app.bookmarks)]

\* Action::ShowBookmarks
ActionShowBookmarks ==
    /\ MayPush
    /\ ui' = show_bookmarks_in_palette(PushView(ui, "CommandPalette"))
    /\ last' = Reduced("reduce", TRUE)
    /\ UNCHANGED <<store, txn, undo, ended, db_names, selected, scan, file, thr, jobs,
                   wk, reg>>

\* Action::OpenCommandPalette
ActionOpenCommandPalette ==
    /\ MayPush
    /\ ui' = PushView(ui, "CommandPalette")
    /\ last' = Reduced("reduce", TRUE)
    /\ UNCHANGED <<store, txn, undo, ended, db_names, selected, scan, file, thr, jobs,
                   wk, reg>>

\* Action::ExecuteCommand(CommandId::GoToBookmark(idx)): the cursor is set
\* only when the key is found among the entries loaded.
ActionGoToBookmark(idx) ==
    /\ ui.running /\ idx < Len(ui.filtered_bookmarks)
    /\ LET mark == ui.filtered_bookmarks[idx + 1]
           at == {i \in 1..Len(db_names) : db_names[i] = mark[1]}
           db_idx == (CHOOSE i \in at : TRUE) - 1
           l == Loaded(mark[1], FALSE)
           found == {i \in 1..Len(l.items) : l.items[i][1] = mark[2]}
           app == PalettePopped(ui)
       IN  IF at = {}
           THEN ui' = app /\ UNCHANGED selected
           ELSE /\ selected' = db_idx
                /\ ui' = [app EXCEPT
                             !.entries = l.items,
                             !.cursor = IF found = {} THEN app.cursor
                                        ELSE (CHOOSE i \in found : TRUE) - 1,
                             !.jump_history =
                                 IF Len(app.jump_history) < MaxMarks
                                 THEN HistoryPush(app.jump_history, mark)
                                 ELSE app.jump_history]
    /\ last' = Reduced("reduce", TRUE)
    /\ UNCHANGED <<store, txn, undo, ended, db_names, scan, file, thr, jobs, wk, reg>>

\* Action::ExecuteCommand(CommandId::CreateEntry), and the key typed into the
\* dialog.
ActionCreateEntry(key) ==
    /\ MayPush
    /\ ui' = [PushView(PalettePopped(ui), "CreateEntry") EXCEPT
                 !.dialog_key = key, !.dialog_value = <<1>>]
    /\ last' = Reduced("reduce", TRUE)
    /\ UNCHANGED <<store, txn, undo, ended, db_names, selected, scan, file, thr, jobs,
                   wk, reg>>

\* Action::ExecuteCommand(CommandId::EditEntry)
ActionEditEntry ==
    /\ MayPush
    /\ LET app == PalettePopped(ui)
           cur == get_current_entry(app)
       IN  ui' = IF IsSome(cur)
                 THEN [PushView(app, "EditEntry") EXCEPT
                          !.dialog_key = Unwrap(cur)[1], !.dialog_value = Unwrap(cur)[2]]
                 ELSE app
    /\ last' = Reduced("reduce", TRUE)
    /\ UNCHANGED <<store, txn, undo, ended, db_names, selected, scan, file, thr, jobs,
                   wk, reg>>

\* Action::ExecuteCommand(CommandId::DeleteEntry)
ActionDeleteEntry ==
    /\ MayPush
    /\ LET app == PalettePopped(ui)
       IN  ui' = IF IsSome(get_current_entry(app)) THEN PushView(app, "DeleteConfirm")
                 ELSE app
    /\ last' = Reduced("reduce", TRUE)
    /\ UNCHANGED <<store, txn, undo, ended, db_names, selected, scan, file, thr, jobs,
                   wk, reg>>

\* Action::EnterPreview
ActionEnterPreview ==
    /\ MayPush
    /\ LET cur == get_current_entry(ui)
       IN  ui' = IF IsSome(cur)
                 THEN [PushView(ui, "Preview") EXCEPT !.preview_key = Some(Unwrap(cur)[1])]
                 ELSE ui
    /\ last' = Reduced("reduce", TRUE)
    /\ UNCHANGED <<store, txn, undo, ended, db_names, selected, scan, file, thr, jobs,
                   wk, reg>>

\* Action::ConfirmCreate and Action::ConfirmEdit, the same code: the put in a
\* writer of its own, the entries loaded again, and the view popped whatever
\* the current view is.
ActionConfirmPut ==
    /\ ui.running
    /\ Len(undo.ops) < MaxEdits
    /\ IF ui.dialog_key # <<>> /\ db_names # <<>>
       THEN LET db == db_names[selected + 1]
                r == CommandsPut(store, undo, db, ui.dialog_key, ui.dialog_value)
                l == list_entries(r.view, db, DEFAULT_ENTRY_LIMIT)
                found == {i \in 1..Len(l.items) : l.items[i][1] = ui.dialog_key}
            IN  /\ undo' = r.undo
                /\ store' = IF r.ok THEN r.view ELSE store
                /\ ui' = PopView(IF r.ok /\ l.ok
                                 THEN [ui EXCEPT
                                          !.entries = l.items,
                                          !.cursor = IF found = {} THEN ui.cursor
                                                     ELSE (CHOOSE i \in found : TRUE) - 1]
                                 ELSE ui)
       ELSE /\ ui' = PopView(ui)
            /\ UNCHANGED <<store, undo>>
    /\ last' = Reduced("reduce", TRUE)
    /\ UNCHANGED <<txn, ended, db_names, selected, scan, file, thr, jobs, wk, reg>>

\* Action::ConfirmDelete
ActionConfirmDelete ==
    /\ ui.running
    /\ Len(undo.ops) < MaxEdits
    /\ LET cur == get_current_entry(ui)
       IN  IF IsSome(cur) /\ db_names # <<>>
           THEN LET db == db_names[selected + 1]
                    r == CommandsDelete(store, undo, db, Unwrap(cur)[1])
                    l == list_entries(r.view, db, DEFAULT_ENTRY_LIMIT)
                IN  /\ undo' = r.undo
                    /\ store' = IF r.ok THEN r.view ELSE store
                    /\ ui' = PopView(IF r.ok /\ l.ok
                                     THEN [ui EXCEPT
                                              !.entries = l.items,
                                              !.cursor = IF ui.cursor >= Len(l.items)
                                                            /\ l.items # <<>>
                                                         THEN Len(l.items) - 1
                                                         ELSE ui.cursor]
                                     ELSE ui)
           ELSE /\ ui' = PopView(ui)
                /\ UNCHANGED <<store, undo>>
    /\ last' = Reduced("reduce", TRUE)
    /\ UNCHANGED <<txn, ended, db_names, selected, scan, file, thr, jobs, wk, reg>>

\* Action::Refresh (in the Query view its update_query_results fails on the
\* empty query and the failure is ignored, with query_loading left set).
ActionRefresh ==
    /\ ui.running /\ db_names # <<>>
    /\ LET l == Loaded(db_names[selected + 1], FALSE)
           app == [ui EXCEPT !.entries = l.items,
                             !.cursor = IF ui.cursor >= Len(l.items) /\ l.items # <<>>
                                        THEN Len(l.items) - 1
                                        ELSE IF l.items = <<>> THEN 0 ELSE ui.cursor]
       IN  ui' = IF ~l.ok THEN ui
                 ELSE IF current_view(app) = "Query" THEN update_query_results(app).app
                 ELSE app
    /\ last' = Reduced("reduce", TRUE)
    /\ UNCHANGED <<store, txn, undo, ended, db_names, selected, scan, file, thr, jobs,
                   wk, reg>>

\* Action::NextPageMain (lazy_loading_enabled is always true)
ActionNextPageMain ==
    /\ ui.running /\ current_view(ui) = "Main"
    /\ LET more == list_entries_paginated(store, db_names[selected + 1], Len(ui.entries),
                                          DEFAULT_PAGE_SIZE)
           entries == IF ui.cursor >= saturating_sub(Len(ui.entries), 1)
                         /\ selected < Len(db_names) /\ more.ok
                      THEN ui.entries \o more.items ELSE ui.entries
       IN  ui' = [ui EXCEPT !.entries = entries,
                            !.cursor = IF ui.cursor < saturating_sub(Len(entries), 1)
                                       THEN ui.cursor + 1 ELSE ui.cursor]
    /\ last' = Reduced("reduce", TRUE)
    /\ UNCHANGED <<store, txn, undo, ended, db_names, selected, scan, file, thr, jobs,
                   wk, reg>>

\* Action::PrevPageMain
ActionPrevPageMain ==
    /\ ui.running /\ current_view(ui) = "Main" /\ ui.cursor > 0
    /\ ui' = [ui EXCEPT !.cursor = ui.cursor - 1]
    /\ last' = Reduced("reduce", TRUE)
    /\ UNCHANGED <<store, txn, undo, ended, db_names, selected, scan, file, thr, jobs,
                   wk, reg>>

ReduceNext ==
    \/ \E fails \in BOOLEAN : ActionNextDb(fails)
    \/ \E fails \in BOOLEAN : ActionPrevDb(fails)
    \/ \E idx \in 0..1 : ActionJumpToDatabase(idx)
    \/ ActionNextEntry
    \/ ActionPrevEntry
    \/ ActionEnterQuery
    \/ ActionExitView
    \/ ActionUndo
    \/ ActionRedo
    \/ ActionOpenCommandPalette
    \/ \E key \in DialogKeys : ActionCreateEntry(key)
    \/ ActionEditEntry
    \/ ActionDeleteEntry
    \/ ActionConfirmPut
    \/ ActionConfirmDelete
    \/ ActionRefresh
    \/ ActionNextPageMain
    \/ ActionPrevPageMain

SpecReduce == ReduceInit /\ [][ReduceNext]_vars

(***************************************************************************)
(* The reducer with bookmarks (SpecMarks): the user moves about, marks     *)
(* entries, deletes entries and jumps to what the palette lists.  Every    *)
(* load succeeds.                                                          *)
(***************************************************************************)
MarksNext ==
    \/ ActionNextDb(FALSE)
    \/ ActionPrevDb(FALSE)
    \/ ActionNextEntry
    \/ ActionPrevEntry
    \/ ActionNextPageMain
    \/ ActionEnterQuery
    \/ ActionExitView
    \/ ActionRefresh
    \/ ActionEnterPreview
    \/ ActionToggleBookmark
    \/ ActionShowBookmarks
    \/ \E idx \in 0..1 : ActionGoToBookmark(idx)
    \/ ActionDeleteEntry
    \/ ActionConfirmDelete

SpecMarks == ReduceInit /\ [][MarksNext]_vars

(***************************************************************************)
(* Paging in the query view (SpecQuery).  A result set spans pages only    *)
(* when it is larger than the page, and the spaces of the model hold at    *)
(* most six keys: PageSize stands for DEFAULT_PAGE_SIZE here.              *)
(***************************************************************************)
PageSize == 1       \* the page of the query view, for DEFAULT_PAGE_SIZE
MaxQuery == 2       \* longest query typed

\* "data" with any keys, all of the same value.
QueryEnvs ==
    { [EmptyEnv EXCEPT !.named[DATA] =
           [exists |-> TRUE, kv |-> [k \in KeySet |-> IF k \in S THEN Some(<<1>>) ELSE None]]]
      : S \in SUBSET KeySet \ {{}} }

QueryInit ==
    /\ store \in QueryEnvs
    /\ txn = NoTxn
    /\ undo = NewUndoStack
    /\ last = [call |-> "none", res |-> "none"]
    /\ ended = [how |-> "none", expect |-> store, dirty |-> FALSE]
    /\ db_names = list_databases(store)
    /\ selected = 0
    /\ scan = ScanIdle
    /\ file = NoFile
    /\ thr = ThreadsIdle
    /\ ui = [UiIdle EXCEPT
                !.running = TRUE,
                !.entries = list_entries(store, db_names[1], DEFAULT_ENTRY_LIMIT).items]
    /\ jobs = NoJobs
    /\ wk = NoWorker
    /\ reg = NoRegistry

\* A character typed in the query view: app.query.push(c),
\* update_query_results()?
QueryTyped(c) ==
    /\ ui.running /\ current_view(ui) = "Query"
    /\ Len(ui.query) < MaxQuery
    /\ ui' = AfterKey(update_query_results_paged([ui EXCEPT !.query = Append(ui.query, c)],
                                                 PageSize))
    /\ last' = [call |-> "key", res |-> "char"]
    /\ UNCHANGED <<store, txn, undo, ended, db_names, selected, scan, file, thr, jobs,
                   wk, reg>>

\* Backspace in the query view: app.query.pop(), update_query_results()?
QueryBackspace ==
    /\ ui.running /\ current_view(ui) = "Query"
    /\ ui' = AfterKey(update_query_results_paged(
                          [ui EXCEPT !.query = IF ui.query = <<>> THEN <<>>
                                               ELSE SubSeq(ui.query, 1, Len(ui.query) - 1)],
                          PageSize))
    /\ last' = [call |-> "key", res |-> "backspace"]
    /\ UNCHANGED <<store, txn, undo, ended, db_names, selected, scan, file, thr, jobs,
                   wk, reg>>

\* Action::NextPage
ActionNextPage ==
    /\ ui.running /\ current_view(ui) = "Query"
    /\ LET max_offset == saturating_sub(ui.total_entries, PageSize)
           min(a, b) == IF a < b THEN a ELSE b
       IN  ui' = IF ui.page_offset < max_offset
                 THEN AfterKey(update_query_results_paged(
                                   [ui EXCEPT !.page_offset = min(ui.page_offset + PageSize,
                                                                  max_offset),
                                              !.query_cursor = 0],
                                   PageSize))
                 ELSE ui
    /\ last' = Reduced("NextPage", ui'.running)
    /\ UNCHANGED <<store, txn, undo, ended, db_names, selected, scan, file, thr, jobs,
                   wk, reg>>

\* Action::PrevPage
ActionPrevPage ==
    /\ ui.running /\ current_view(ui) = "Query"
    /\ ui' = IF ui.page_offset >= PageSize
             THEN AfterKey(update_query_results_paged(
                               [ui EXCEPT !.page_offset = saturating_sub(ui.page_offset,
                                                                         PageSize),
                                          !.query_cursor = 0],
                               PageSize))
             ELSE IF ui.page_offset > 0
             THEN AfterKey(update_query_results_paged(
                               [ui EXCEPT !.page_offset = 0, !.query_cursor = 0],
                               PageSize))
             ELSE ui
    /\ last' = Reduced("PrevPage", ui'.running)
    /\ UNCHANGED <<store, txn, undo, ended, db_names, selected, scan, file, thr, jobs,
                   wk, reg>>

QueryNext ==
    \/ ActionEnterQuery
    \/ \E c \in {"a", "b"} : QueryTyped(c)
    \/ QueryBackspace
    \/ ActionNextPage
    \/ ActionPrevPage

SpecQuery == QueryInit /\ [][QueryNext]_vars

(***************************************************************************)
(* Claims about transactions, the mutators and the undo log (Spec).        *)
(***************************************************************************)
UndoIsFalse == last = [call |-> "undo", res |-> "false"]
RedoIsFalse == last = [call |-> "redo", res |-> "false"]

\* C1 as stated: under a single writer that began with an empty undo log, when
\* undo has returned false the writer's view is the store as it was before the
\* put/delete calls, and when redo has returned false it is the view as it was
\* after them.
C1_UndoLawWholeStore ==
    (Live /\ txn.fresh) =>
        /\ UndoIsFalse => txn.view = txn.base
        /\ RedoIsFalse => txn.view = txn.post

\* C1 amended: under a single writer that began with an empty undo log, when
\* undo has returned false every space holds the entries it held before the
\* put/delete calls (a space a put created stays, empty); when redo has
\* returned false the view is the one after the calls; and from every state
\* with something to undo, one undo followed by one redo leaves the view as it
\* is.
C1_UndoLaw ==
    (Live /\ txn.fresh) =>
        /\ UndoIsFalse => Contents(txn.view) = Contents(txn.base)
        /\ RedoIsFalse => txn.view = txn.post
        /\ can_undo(undo) =>
              LET u == UndoStep(txn.view, undo)
                  r == RedoStep(u.view, u.undo)
              IN  u.res = "true" /\ r.res = "true" /\ r.view = txn.view

\* Undo has run to the start of a log of two records whose calls had changed
\* the entries.
C1_Witness ==
    /\ Live /\ txn.fresh /\ UndoIsFalse
    /\ Len(undo.ops) >= 2
    /\ Contents(txn.post) # Contents(txn.base)

\* C2: while a writer is live the committed store is the store at its begin
\* (no put or delete is visible before commit), and after the writer ended the
\* store is its whole view if it committed and the store at its begin if it
\* aborted.
C2_Atomicity ==
    /\ Live => store = txn.base
    /\ store = ended.expect

\* A writer that had changed its view was aborted.
C2_Witness == ~Live /\ ended.how = "abort" /\ ended.dirty /\ last.call = "abort"

\* C3: no named space literally called "(unnamed)" exists, neither committed
\* nor in a writer's view.
C3_NoLiteralUnnamed ==
    /\ ~store.named[UNNAMED].exists
    /\ Live => ~txn.view.named[UNNAMED].exists

\* C13: in every state a writer can be in, a call of UndoStack::undo or
\* UndoStack::redo that returns an error leaves the cursor pos where it was.
C13_CursorStaysOnError ==
    Live =>
        /\ UndoStep(txn.view, undo).res = "err" => UndoStep(txn.view, undo).undo.pos = undo.pos
        /\ RedoStep(txn.view, undo).res = "err" => RedoStep(txn.view, undo).undo.pos = undo.pos

\* What the store holds under the key of a record once the record's mutation
\* is committed and is the latest one: the new value of a Put, nothing after a
\* Delete.
CommittedEffect(op) == store.named[op.db].kv[op.key] = op.new

\* C14: when every writer has ended, the last undoable record of the log is a
\* mutation that was committed: the store holds its effect.  (A record of an
\* aborted writer that stayed undoable breaks this.)
C14_LogFollowsCommits ==
    (~Live /\ can_undo(undo)) => CommittedEffect(undo.ops[undo.pos])

\* The last call was a recording mutator that succeeded, so it ended in push.
Pushed ==
    last.call \in {"put", "delete", "ConfirmCreate", "ConfirmEdit"} /\ last.res = "ok"

\* C15: after any calls of push, undo and redo, those that return false or an
\* error included, 0 <= pos <= len and undo_count() + redo_count() = len; right
\* after a push pos = len.
C15_CursorInvariant ==
    /\ undo.pos \in 0..Len(undo.ops)
    /\ undo_count(undo) + redo_count(undo) = Len(undo.ops)
    /\ Pushed => undo.pos = Len(undo.ops)

\* An undo has just failed on a log of one record.
C15_Witness ==
    /\ last = [call |-> "undo", res |-> "err"]
    /\ Len(undo.ops) = 1

\* Records a caller may push next.
NextRecords ==
    {OpPut(db, key, None, value) : db \in Addressed, key \in KvKeys \ {<<>>}, value \in KvValues}
    \cup {OpDelete(db, key, None) : db \in Addressed, key \in KvKeys \ {<<>>}}

\* C16: in every state the log can be in, a push with pos < len removes the
\* records after the cursor, keeps the records before it in content and order,
\* makes the new record the last one, and leaves nothing to redo.
C16_PushTruncates ==
    can_redo(undo) =>
        \A op \in NextRecords :
            LET after == push(undo, op)
            IN  /\ Len(after.ops) = undo.pos + 1
                /\ SubSeq(after.ops, 1, undo.pos) = SubSeq(undo.ops, 1, undo.pos)
                /\ after.ops[Len(after.ops)] = op
                /\ ~can_redo(after)

\* A push has truncated: on an environment that had no space, the log is the
\* one record of a delete, which succeeded only because an undone put had
\* created the space.
C16_Witness ==
    /\ Live /\ txn.fresh /\ txn.base = EmptyEnv
    /\ last = [call |-> "delete", res |-> "ok"]
    /\ Len(undo.ops) = 1 /\ undo.ops[1].kind = "Delete" /\ undo.pos = 1

\* C17: in every state a writer can be in, undo with pos = 0 and redo with
\* pos = len return false and leave the log, the cursor and the writer's view
\* as they are; they return false in no other state, and an error only when
\* the kv call on the store failed.
C17_NothingToDo ==
    Live =>
        LET u == UndoStep(txn.view, undo)
            r == RedoStep(txn.view, undo)
        IN  /\ undo.pos = 0 => u = [res |-> "false", view |-> txn.view, undo |-> undo]
            /\ undo.pos = Len(undo.ops) =>
                  r = [res |-> "false", view |-> txn.view, undo |-> undo]
            /\ u.res = "false" => undo.pos = 0
            /\ r.res = "false" => undo.pos = Len(undo.ops)
            /\ u.res = "err" => ~ApplyInverse(txn.view, undo.ops[undo.pos]).ok
            /\ r.res = "err" => ~ApplyForward(txn.view, undo.ops[undo.pos + 1]).ok

\* Redo has returned false at the end of a log of two records.
C17_Witness ==
    /\ Live /\ RedoIsFalse
    /\ Len(undo.ops) = 2 /\ undo.pos = 2

\* commands::delete of a key that get reports absent is a no-op that records
\* Delete{prev: None}, and the undo of that record is a no-op too.
AbsentDeleteIsNoOp(db, key) ==
    LET d == CommandsDelete(txn.view, undo, db, key)
        u == UndoStep(d.view, d.undo)
    IN  /\ d.ok
        /\ d.view = txn.view
        /\ d.undo = push(undo, OpDelete(db, key, None))
        /\ u.res = "true" /\ u.view = txn.view

\* C18: in every state a writer can be in, for every space name and key for
\* which get returns None, commands::delete is such a no-op.
C18_DeleteAbsent ==
    Live =>
        \A db \in Addressed, key \in KvKeys :
            KvGet(txn.view, db, key) = [ok |-> TRUE, value |-> None] =>
                AbsentDeleteIsNoOp(db, key)

(***************************************************************************)
(* Claims about the scanner (SpecScan).                                    *)
(***************************************************************************)
\* What scan_paginated returns for the whole result of the last call's query.
WholeResult == scan_paginated(store, scan.db, scan.mode, 0, Unbounded)

\* The keys of the scanned space.
SpaceKeys == {k \in KeySet : IsSome(open_database(store, scan.db).kv[k])}

KeysOf(items) == [i \in 1..Len(items) |-> items[i][1]]

StrictlyAscending(keys) ==
    \A i \in 1..Len(keys), j \in 1..Len(keys) : i < j => LexLess(keys[i], keys[j])

\* C6: what count_matches returns is the number of entries scan_paginated
\* returns for the same space and mode at offset 0 with an unbounded limit, and
\* the one fails exactly when the other does.
C6_CountIsPageLength ==
    scan.op = "count" =>
        /\ scan.ok = WholeResult.ok
        /\ scan.count = Len(WholeResult.items)

\* A count of two matches in a space that holds an entry that does not match.
C6_Witness ==
    /\ scan.op = "count" /\ scan.ok
    /\ scan.count = 2
    /\ Cardinality(SpaceKeys) = 3

\* C7: the pages of a walk with a step >= 1, concatenated, are at every call a
\* prefix of the whole result, and the whole result when the walk has ended on
\* an empty page: no match skipped, none repeated.
C7_PagesConcatenate ==
    (scan.op = "pages" /\ scan.ok) =>
        /\ Len(scan.items) <= Len(WholeResult.items)
        /\ scan.items = SubSeq(WholeResult.items, 1, Len(scan.items))
        /\ scan.done => scan.items = WholeResult.items

\* A walk of step 2 over three matches has ended: two pages and an empty one.
C7_Witness ==
    /\ scan.op = "pages" /\ scan.ok /\ scan.done
    /\ scan.limit = 2
    /\ Len(scan.items) = 3

\* C8: scan_paginated returns at most `limit` entries, limit = 0 included.
C8_WindowBound ==
    (scan.op = "page" /\ scan.ok) => Len(scan.items) <= scan.limit

\* The keys a prefix selects.
PrefixKeys == {k \in SpaceKeys : starts_with(k, scan.mode.a)}

\* C9: under Mode::Prefix(p), scan_paginated at offset 0 with an unbounded limit
\* returns the entries of exactly the keys that start with p, in strictly
\* ascending key order, and count_matches returns their number.
C9_PrefixExact ==
    (scan.mode.kind = "Prefix" /\ scan.ok) =>
        /\ (scan.op = "page" /\ scan.offset = 0 /\ scan.limit = Unbounded) =>
              /\ KeysOf(scan.items) = SortKeys(PrefixKeys)
              /\ StrictlyAscending(KeysOf(scan.items))
              /\ \A i \in 1..Len(scan.items) :
                    Some(scan.items[i][2]) = open_database(store, scan.db).kv[scan.items[i][1]]
        /\ scan.op = "count" => scan.count = Cardinality(PrefixKeys)

\* A prefix scan returned a key that comes after a smaller key that does not
\* start with the prefix, and stopped before a greater one.
C9_Witness ==
    /\ scan.op = "page" /\ scan.ok /\ scan.mode.kind = "Prefix"
    /\ scan.offset = 0 /\ scan.limit = Unbounded
    /\ scan.items # <<>>
    /\ \E k \in SpaceKeys : ~starts_with(k, scan.mode.a) /\ LexLess(k, scan.mode.a)
    /\ \E k \in SpaceKeys : ~starts_with(k, scan.mode.a) /\ LexLess(scan.mode.a, k)

\* The keys a range selects.
RangeKeys == {k \in SpaceKeys : LexLeq(scan.mode.a, k) /\ LexLess(k, scan.mode.b)}

\* C10: under Mode::Range(lo, hi), scan_paginated at offset 0 with an unbounded
\* limit returns exactly the keys k with lo <= k < hi in ascending order (hi
\* itself excluded, nothing when lo >= hi), and count_matches their number.
C10_HalfOpenRange ==
    (scan.mode.kind = "Range" /\ scan.ok) =>
        /\ (scan.op = "page" /\ scan.offset = 0 /\ scan.limit = Unbounded) =>
              /\ KeysOf(scan.items) = SortKeys(RangeKeys)
              /\ scan.mode.b \notin {scan.items[i][1] : i \in 1..Len(scan.items)}
              /\ LexLeq(scan.mode.b, scan.mode.a) => scan.items = <<>>
        /\ scan.op = "count" => scan.count = Cardinality(RangeKeys)

\* A range scan returned an entry from a space that holds the key hi.
C10_Witness ==
    /\ scan.op = "page" /\ scan.ok /\ scan.mode.kind = "Range"
    /\ scan.offset = 0 /\ scan.limit = Unbounded
    /\ scan.items # <<>>
    /\ scan.mode.b \in SpaceKeys

\* The keys the last scanner call read from the iterator, in the order read.
KeysRead ==
    LET it == Iter(open_database(store, scan.db).kv)
    IN  [i \in 1..scan.read |-> it[i][1]]

\* The key lies strictly above the upper bound of the mode's range: above the
\* prefix without starting with it, or above hi.
BeyondBound(key) ==
    IF scan.mode.kind = "Prefix"
    THEN LexLess(scan.mode.a, key) /\ ~starts_with(key, scan.mode.a)
    ELSE LexLess(scan.mode.b, key)

BoundedCall == scan.op # "none" /\ scan.ok /\ scan.mode.kind \in {"Prefix", "Range"}

FullListing == Iter(open_database(store, scan.db).kv)

Min(a, b) == IF a <= b THEN a ELSE b

\* C12: list_entries_paginated returns exactly the entries offset+1 ..
\* offset+limit of the full ascending listing: at most `limit` entries, the
\* empty page and no error when offset >= size, and a page followed by the next
\* page is the page of twice the limit.
C12_ReaderWindow ==
    (scan.op = "list" /\ open_database(store, scan.db).ok) =>
        /\ scan.ok
        /\ Len(scan.items) <= scan.limit
        /\ scan.items = SubSeq(FullListing, scan.offset + 1,
                               Min(Len(FullListing), scan.offset + Min(scan.limit, Len(FullListing))))
        /\ scan.offset >= Len(FullListing) => scan.items = <<>>
        /\ scan.limit <= MaxLimit =>
              scan.items \o list_entries_paginated(store, scan.db, scan.offset + scan.limit,
                                                   scan.limit).items
                = list_entries_paginated(store, scan.db, scan.offset, 2 * scan.limit).items

\* A page of two entries from the middle of a listing: one entry before it.
C12_Witness ==
    /\ scan.op = "list" /\ scan.ok
    /\ scan.offset = 1 /\ scan.limit = 2
    /\ Len(scan.items) = 2
    /\ Len(FullListing) = 3

(***************************************************************************)
(* Claims about export and import (SpecCodec).                             *)
(***************************************************************************)
\* The entries of the space the file was imported into, as kv::get reads them.
ImportedInto(st) == st.named[file.dst].kv

\* The writer that imported the file has committed: the import is the only
\* call of a run that changes an entry under a writer.
ImportCommitted ==
    file.imported = "ok" /\ ~Live /\ ended.how = "commit" /\ ended.dirty

\* C4: a file commands::export_json or commands::export_csv wrote is imported
\* without error into a space that held no entry, and then that space holds
\* exactly the exported entries, byte for byte: in the writer's view after the
\* import, and in the committed store after the commit.
C4_LibraryRoundTrip ==
    file.by = "lib" =>
        /\ file.imported # "err"
        /\ (file.imported = "ok" /\ last.call = "import") =>
              Live /\ ImportedInto(txn.view) = file.src
        /\ ImportCommitted => ImportedInto(store) = file.src

\* A CSV file of two entries, one of three octets and one with the octet 0xff,
\* was imported and committed.
C4_Witness ==
    /\ file.by = "lib" /\ file.fmt = "csv" /\ ImportCommitted
    /\ \A k \in CodecKeys : IsSome(file.src[k])
    /\ \E k \in CodecKeys : Len(Unwrap(file.src[k])) = 3
    /\ \E k \in CodecKeys : \E i \in 1..Len(Unwrap(file.src[k])) : Unwrap(file.src[k])[i] = 255

\* C5: the `export` subcommand writes a file for every existing space, whatever
\* octets its values hold, and after the space was cleared the `import`
\* subcommand restores every entry with a byte-identical value.
C5_CliOpaqueOctets ==
    (file.by = "cli" /\ store.named[file.db].exists) =>
        /\ file.ok
        /\ (file.imported = "ok" /\ file.dst = file.db) => ImportedInto(store) = file.src

(***************************************************************************)
(* Claims about the writers (SpecWriters).                                 *)
(***************************************************************************)
\* C19: for every interleaving of the foreground thread and the gRPC put and
\* delete handlers, at most one thread holds a Txn obtained from Txn::begin at
\* any instant, and while a thread holds one the environment's writer is live:
\* no second Txn::begin obtains a writer before the first is committed or
\* aborted.
C19_SingleWriter ==
    /\ Cardinality(Holders) <= 1
    /\ Holders # {} => Live

\* A gRPC handler holds the writer while the foreground thread and the other
\* handler have both called Txn::begin and wait for it.
C19_Witness ==
    /\ \E t \in RpcThreads : thr.pc[t] \in {"txn", "ok", "err"}
    /\ thr.pc["fg"] = "blocked"
    /\ \E t \in RpcThreads : thr.pc[t] = "blocked"

\* C20: a Txn::begin that found another writer live has, once it is no longer
\* waiting, returned an error to its caller and handed out no writer; and a
\* Txn::begin on an environment opened read-only has returned an error.
C20_BusyIsError ==
    \A t \in Threads :
        /\ (thr.busy[t] /\ thr.pc[t] # "blocked") =>
               (thr.res[t] = "err" /\ t \notin Holders)
        /\ (thr.read_only /\ thr.pc[t] # "begin") => thr.res[t] \in {"none", "err"}

\* The half of C20 about the read-only environment: there no Txn::begin hands
\* out a writer, and every one that returned has returned an error.
C20_ReadOnlyIsError ==
    thr.read_only =>
        /\ Holders = {}
        /\ \A t \in Threads : thr.res[t] \in {"none", "err"}

(***************************************************************************)
(* Claims about the interactive loop (SpecLoop).                           *)
(***************************************************************************)
\* C21: when the operation a key triggered has failed (a query text that does
\* not parse after a character or Backspace, or a confirmed create, edit or
\* delete on a read-only environment), the loop still runs, the view is the
\* one the key was pressed in, and query_loading is reset.
C21_ErrorsKeepView ==
    ui.err => (ui.running /\ ui.view = ui.before /\ ~ui.query_loading)

(***************************************************************************)
(* Claims about the stats worker (SpecJobs, SpecJobsLive).                 *)
(***************************************************************************)
\* C22: the statistics the App shows as db_stats are those of the selected
\* space db_names[selected]: a result for another space never becomes them.
C22_StatsOfSelected ==
    (IsSome(jobs.db_stats) /\ db_names # <<>>) =>
        Unwrap(jobs.db_stats).of = db_names[selected + 1]

\* The request numbered i was sent; it is a request the worker can answer (the
\* environment's statistics, or those of a space that can be opened).
Requested(i) == i < jobs.next
Answerable(i) ==
    Requested(i) /\ (jobs.asked[i].kind = "Env" \/ db_stats(store, jobs.asked[i].name).ok)

\* The results sent so far for the request numbered i.
ResultsFor(i) == {n \in 1..Len(jobs.out) : jobs.out[n].id = i}

\* Exactly one result was sent for request i, of its kind and for its space.
AnsweredOnce(i) ==
    /\ Cardinality(ResultsFor(i)) = 1
    /\ \A n \in ResultsFor(i) :
           jobs.out[n].kind = jobs.asked[i].kind /\ jobs.out[n].name = jobs.asked[i].name

\* C23: every request_env_stats, and every request_db_stats for a space that
\* can be opened, is eventually followed by exactly one result of its kind
\* and for its space, however many requests are queued; and no request ever
\* has two results.
C23_EveryRequestAnswered ==
    /\ \A i \in 1..MaxJobs : [](Answerable(i) => <>AnsweredOnce(i))
    /\ [](\A i \in 1..MaxJobs : Cardinality(ResultsFor(i)) <= 1)

\* MaxJobs requests were sent, two of them queued at once from the start, and
\* each has its one result.
C23_Witness ==
    /\ jobs.next = MaxJobs + 1
    /\ \A i \in 1..MaxJobs : Answerable(i) /\ AnsweredOnce(i)

\* The requests still waiting in the channel or running.
Pending ==
    {jobs.req[n].id : n \in 1..Len(jobs.req)}
    \cup (IF jobs.worker = "run" THEN {jobs.job.id} ELSE {})

\* C24: a job that fails leaves no result and no error with the requester,
\* and does not stop the worker: the worker thread has ended only when the
\* queue was dropped and drained, no request has returned an error, and every
\* request sent is waiting, running, answered or logged.
C24_FailuresAreDropped ==
    /\ \A i \in jobs.logged : ResultsFor(i) = {} /\ ~Answerable(i)
    /\ ~jobs.send_err
    /\ jobs.worker = "exited" => (jobs.dropping /\ jobs.req = <<>>)
    /\ \A i \in 1..MaxJobs :
           Requested(i) => (i \in Pending \/ i \in jobs.logged \/ ResultsFor(i) # {})

\* A job failed, and a job requested after it has its result.
C24_Witness ==
    \E i \in jobs.logged : \E j \in 1..MaxJobs : j > i /\ ResultsFor(j) # {}

\* C25: once the queue is being dropped the join returns; by then the worker
\* thread has ended and every request sent before the drop was executed.
Executed(i) == i \in jobs.logged \/ ResultsFor(i) # {}

C25_DropTerminates ==
    /\ [](jobs.dropping => <>jobs.joined)
    /\ [](jobs.joined =>
              (jobs.worker = "exited" /\ \A i \in 1..MaxJobs : Requested(i) => Executed(i)))

\* The join has returned after a drop that found requests not yet executed.
C25_Witness ==
    /\ jobs.joined
    /\ Cardinality(jobs.at_drop) >= 2
    /\ \A i \in jobs.at_drop : Executed(i)

(***************************************************************************)
(* Claims about the generic Worker (SpecWorker).                           *)
(***************************************************************************)
\* C26: for any interleaving of Worker::request calls, a call that has
\* returned has returned the value the handler computed for the request of
\* that very call; no oneshot has received two responses; and the task is
\* never stopped, whoever gave up: it is receiving or handling.
C26_RequestResponsePairing ==
    /\ \A c \in Callers :
           IsSome(wk.callers[c].ret) =>
               [caller |-> c, call |-> wk.callers[c].call, req |-> wk.callers[c].req,
                val |-> Unwrap(wk.callers[c].ret)] \in wk.computed
    /\ \A m, n \in 1..Len(wk.delivered) : wk.delivered[m] = wk.delivered[n] => m = n
    /\ wk.task \in {"recv", "handling"}

\* A caller gave up its first call, and its second call, with another
\* request, has returned its own response.
C26_Witness ==
    \E c \in Callers :
        /\ <<c, 1>> \in wk.gave_up
        /\ wk.callers[c].call = 2
        /\ IsSome(wk.callers[c].ret)
        /\ \E x \in wk.computed : x.caller = c /\ x.call = 1 /\ x.req # wk.callers[c].req

(***************************************************************************)
(* Claims about the decoders and the plug-in registry (SpecPlugins).       *)
(***************************************************************************)
\* What each decoder of the chain JSON, MessagePack, plug-ins in registration
\* order returns for b.
ChainResult(list, n, b) ==
    IF n = 1
    THEN [ok |-> JsonParse(b).ok, by |-> "json", value |-> JsonParse(b).value]
    ELSE IF n = 2
    THEN [ok |-> MsgPackParse(b).ok, by |-> "msgpack", value |-> MsgPackParse(b).value]
    ELSE PluginDecode(list[n - 2].dec, b)

Accepting(list, b) == {n \in 1..(Len(list) + 2) : ChainResult(list, n, b).ok}

IsPrefixOf(a, b) == Len(a) <= Len(b) /\ \A i \in 1..Len(a) : a[i].dec = b[i].dec

\* C28: whatever the interleaving, a thread inside decode_with_plugins sees
\* the list it saw when it took the read lock, every element of it whole, and
\* no decode has ever met an element that was not whole; and the list only
\* grows at its end: the list before the last step is a prefix of it.
C28_RegistryUnderConcurrency ==
    /\ \A t \in PlugThreads :
           /\ ~reg.th[t].torn
           /\ reg.th[t].pc = "iter" =>
                  (reg.list = reg.th[t].start /\ \A i \in 1..Len(reg.list) : reg.list[i].whole)
    /\ IsPrefixOf(reg.prev, reg.list)

\* A registration is under way, its element in the list and not yet whole,
\* after an earlier one, while another thread waits in decode_with_plugins
\* for the read lock.
C28_Witness ==
    /\ \E t \in PlugThreads : reg.th[t].pc = "pushing"
    /\ Len(reg.list) = 2 /\ ~reg.list[2].whole
    /\ \E t \in PlugThreads : reg.th[t].pc = "want_read"

(***************************************************************************)
(* Claims about the query parser (SpecParse).                              *)
(***************************************************************************)
Parsed == last.call = "parse_query"
Trimmed == trim(ui.query)
HasKeyword(kw) == starts_with(Trimmed, kw)
Rest(kw) == SubSeq(Trimmed, Len(kw) + 1, Len(Trimmed))
NoKeyword ==
    ~HasKeyword(KwPrefix) /\ ~HasKeyword(KwRange) /\ ~HasKeyword(KwRegex)
    /\ ~HasKeyword(KwJsonPath)

\* The keys of a range query: one or two letters.
RangeEnds == SeqsUpTo({"a", "b"}, 2) \ {<<>>}

\* The arms of the dispatch that C29 and its amended form share: "prefix ",
\* "range lo..hi" and "range lo hi", "jsonpath ", and the default.
DispatchArms ==
    /\ HasKeyword(KwPrefix) => last.res = ParseOk("Prefix", Rest(KwPrefix), <<>>)
    /\ \A lo \in RangeEnds, hi \in RangeEnds :
           (Trimmed = KwRange \o lo \o DotDot \o hi \/ Trimmed = KwRange \o lo \o <<" ">> \o hi)
               => last.res = ParseOk("Range", lo, hi)
    /\ HasKeyword(KwJsonPath) => last.res = ParseOk("JsonPath", Rest(KwJsonPath), <<>>)
    /\ (NoKeyword /\ Trimmed # <<>>) => last.res = ParseOk("Prefix", Trimmed, <<>>)

\* C29 as stated: with t the trimmed input, parse_query yields Prefix(rest)
\* for "prefix ", Range(lo, hi) for "range lo..hi" and "range lo hi", Regex
\* for every t that starts with "regex ", JsonPath(rest) for "jsonpath ", and
\* Prefix(t) otherwise; keywords are case-sensitive, rest is kept as it is.
C29_DispatchAsStated ==
    Parsed =>
        /\ DispatchArms
        /\ HasKeyword(KwRegex) => last.res = ParseOk("Regex", Rest(KwRegex), <<>>)

\* C29, amended: the same, but a t that starts with "regex " yields Regex
\* when its rest compiles as a regular expression and the compile error when
\* it does not.
C29_KeywordDispatch ==
    Parsed =>
        /\ DispatchArms
        /\ HasKeyword(KwRegex) =>
               IF RegexNew(Rest(KwRegex))
               THEN last.res = ParseOk("Regex", Rest(KwRegex), <<>>)
               ELSE ~last.res.ok

\* A query with leading whitespace and the keyword in another case was
\* parsed as a prefix over the whole trimmed text.
C29_Witness ==
    /\ Parsed
    /\ ui.query = <<" ", "P", "r", "e", "f", "i", "x", " ", "a", " ", "b">>
    /\ last.res = ParseOk("Prefix", <<"P", "r", "e", "f", "i", "x", " ", "a", " ", "b">>, <<>>)

\* The body of a "range " query is two keys separated by ".." or by
\* whitespace: neither key is empty or holds whitespace or "..".
IsRangeKey(k) ==
    /\ k # <<>>
    /\ \A i \in 1..Len(k) : ~IsWhitespace(k[i])
    /\ split_once(k, DotDot) = None

WellFormedRange(body) ==
    \/ /\ IsSome(split_once(body, DotDot))
       /\ IsRangeKey(trim(Unwrap(split_once(body, DotDot))[1]))
       /\ IsRangeKey(trim(Unwrap(split_once(body, DotDot))[2]))
    \/ /\ split_once(body, DotDot) = None
       /\ Len(split_whitespace(body)) = 2

\* C30: parse_query fails for every input that is empty after trimming,
\* fails with the invalid-range error for every "range " query whose body is
\* not two keys separated by ".." or by whitespace, and never fails for a
\* non-empty input that has none of the keywords.
C30_ParserRejections ==
    Parsed =>
        /\ Trimmed = <<>> => ~last.res.ok
        /\ (HasKeyword(KwRange) /\ ~WellFormedRange(Rest(KwRange)))
               => last.res = ParseErr("invalid range query")
        /\ (NoKeyword /\ Trimmed # <<>>) => last.res.ok

\* The parts of C30 that hold: the empty input fails, a "range " query with
\* one key and no ".." fails with the invalid-range error, and no input
\* without a keyword fails.
C30_RejectionsThatHold ==
    Parsed =>
        /\ Trimmed = <<>> => ~last.res.ok
        /\ (HasKeyword(KwRange) /\ split_once(Rest(KwRange), DotDot) = None
            /\ Len(split_whitespace(Rest(KwRange))) < 2)
               => last.res = ParseErr("invalid range query")
        /\ (NoKeyword /\ Trimmed # <<>>) => last.res.ok

(***************************************************************************)
(* Claims about auto-creation, imports and the interactive reducer.        *)
(***************************************************************************)
Listed(st, db) == \E i \in DOMAIN list_databases(st) : list_databases(st)[i] = db

\* The writer's latest call was a put that succeeded: its record is the last
\* of the log.
PutReturnedOk == Live /\ last = [call |-> "put", res |-> "ok"]

\* C31: a put addressed to a space that does not exist creates the space in
\* the writer's view; when the writer commits next, list_databases contains
\* the name and the written key is readable; when it aborts instead, the
\* space does not exist afterwards.
C31_AutoCreateOnPut ==
    [][ (PutReturnedOk /\ ~txn.base.named[undo.ops[undo.pos].db].exists) =>
            LET op == undo.ops[undo.pos]
            IN  /\ txn.view.named[op.db].exists
                /\ KvGet(txn.view, op.db, op.key) = [ok |-> TRUE, value |-> op.new]
                /\ last'.call = "commit" =>
                       /\ Listed(store', op.db)
                       /\ KvGet(store', op.db, op.key) = [ok |-> TRUE, value |-> op.new]
                /\ last'.call = "abort" => ~store'.named[op.db].exists ]_vars

\* On an environment that listed no space at open, a writer's put to "data"
\* was committed: the space exists and holds the key.
C31_Witness ==
    /\ db_names = <<>>
    /\ last.call = "commit"
    /\ undo.pos > 0 /\ undo.ops[undo.pos].kind = "Put" /\ undo.ops[undo.pos].db = DATA
    /\ Listed(store, DATA)
    /\ store.named[DATA].kv[undo.ops[undo.pos].key] = undo.ops[undo.pos].new

\* The records commands::import_* reads from the file (the csv reader takes
\* the first one as the header), and the number of fields it expects.
Recs == IF file.fmt = "csv" THEN CsvRecords(file.rows, TRUE) ELSE file.rows
Width == IF file.fmt = "csv" /\ file.rows # <<>> THEN Len(file.rows[1]) ELSE 2

\* A record that fails to parse (fields, base64) or to write (the empty key).
BadRecord(r) == Len(r) # Width \/ Len(r) < 2 \/ r[1] = <<>> \/ ~B64Decode(r[2]).ok
FirstBad ==
    IF \E i \in 1..Len(Recs) : BadRecord(Recs[i])
    THEN CHOOSE i \in 1..Len(Recs) :
             BadRecord(Recs[i]) /\ \A j \in 1..(i - 1) : ~BadRecord(Recs[j])
    ELSE Len(Recs) + 1

\* The records applied: those before the first bad one; none when the JSON
\* document as a whole does not parse.
AppliedCount ==
    IF file.fmt = "json" /\ \E i \in 1..Len(Recs) : Len(Recs[i]) # 2 THEN 0 ELSE FirstBad - 1

Earlier(j, key) == {i \in 1..(j - 1) : Recs[i][1] = key}
Max(S) == CHOOSE x \in S : \A y \in S : y <= x
DecodedValue(i) == Some(B64Decode(Recs[i][2]).bytes)

\* The value of a key after the first j - 1 records were put over the base.
ValueBefore(j, key) ==
    IF Earlier(j, key) # {} THEN DecodedValue(Max(Earlier(j, key)))
    ELSE txn.base.named[file.dst].kv[key]

StreamImportReturned == Live /\ file.by = "user" /\ last.call = "import"

\* C32: commands::import_json / import_csv apply the records in stream
\* order, each as a put with exactly one undo record; the import returns an
\* error when a record is bad, no record from the bad one on is applied, the
\* records applied before it are pending in the caller's writer with their
\* undo records, and they become visible if and only if the caller commits.
C32_ImportStopsAtFirstBad ==
    /\ [](StreamImportReturned =>
            /\ (last.res = "err") <=> (FirstBad <= Len(Recs))
            /\ Len(undo.ops) = AppliedCount /\ undo.pos = AppliedCount
            /\ \A j \in 1..AppliedCount :
                   undo.ops[j] = [kind |-> "Put", db |-> file.dst, key |-> Recs[j][1],
                                  prev |-> ValueBefore(j, Recs[j][1]),
                                  new |-> DecodedValue(j)]
            /\ \A key \in KeySet :
                   txn.view.named[file.dst].kv[key] = ValueBefore(AppliedCount + 1, key)
            /\ store = txn.base)
    /\ [][StreamImportReturned =>
            /\ last'.call = "commit" => Contents(store') = Contents(txn.view)
            /\ last'.call = "abort" => store' = txn.base]_vars

\* An import failed after it had applied a record, the caller committed, and
\* the applied record is visible.
C32_Witness ==
    /\ file.by = "user" /\ file.imported = "err"
    /\ last.call = "commit"
    /\ undo.pos >= 1
    /\ store.named[DATA].kv[undo.ops[1].key] = undo.ops[1].new
    /\ Len(file.rows) > undo.pos

\* C33: when io::import_json / io::import_csv returns an error, no writer is
\* left open and the store is exactly as before the call.
C33_CliImportAllOrNothing ==
    [][(~Live /\ file.by = "user" /\ last'.call = "import" /\ last'.res = "err")
          => (store' = store /\ ~Live')]_vars

\* A csv import into an existing space failed at a record with an empty key
\* that follows a good record, and the good record's key holds what it held.
C33_Witness ==
    /\ ~Live /\ file.by = "user" /\ file.fmt = "csv"
    /\ last = [call |-> "import", res |-> "err"]
    /\ store.named[DATA].exists
    /\ Len(file.rows) = 2
    /\ file.rows[1][1] = <<1>> /\ file.rows[2][1] = <<>>
    /\ store.named[DATA].kv[<<1>>] = Some(<<49>>)


\* C34: App::reduce(Action::Undo) with can_undo() true reverts the most
\* recently recorded mutation in the store and moves the undo cursor back by
\* one; Action::Redo with can_redo() true applies the next record again and
\* moves the cursor forward by one.
C34_UndoRedoActOnStore ==
    [][ /\ (last'.call = "Undo" /\ can_undo(undo)) =>
              /\ undo' = UndoStep(store, undo).undo
              /\ store' = UndoStep(store, undo).view
        /\ (last'.call = "Redo" /\ can_redo(undo)) =>
              /\ undo' = RedoStep(store, undo).undo
              /\ store' = RedoStep(store, undo).view ]_vars

\* C35: after Action::NextDb or Action::PrevDb on a non-empty space list,
\* `selected` is a valid index, `entries` holds the first page of
\* db_names[selected], also when the load failed, and after a load that
\* succeeded the cursor is 0.
C35_SelectionAndEntriesAgree ==
    last.call \in {"NextDb", "PrevDb"} =>
        /\ selected < Len(db_names)
        /\ ui.entries = list_entries(store, db_names[selected + 1],
                                     DEFAULT_ENTRY_LIMIT).items
        /\ last.res = "ok" => ui.cursor = 0

\* C38: after any sequence of App::reduce actions the view stack is not
\* empty and its bottom element is View::Main.
C38_ViewStackBottomIsMain == ui.view # <<>> /\ ui.view[1] = "Main"

\* C40: whenever the current view is Main and `entries` is not empty,
\* cursor < entries.len().
C40_MainCursorInBounds ==
    (current_view(ui) = "Main" /\ ui.entries # <<>>) => ui.cursor < Len(ui.entries)

\* The page of the query at page_offset, as scan_paginated returns it.
ShownPage ==
    scan_paginated(store, db_names[selected + 1], ScanModeOf(parse_query(ui.query)),
                   ui.page_offset, PageSize)

C37_FailedMutationNotRecorded ==
    [][ (last'.call \in {"put", "delete"} /\ last'.res = "err") => undo' = undo ]_vars

\* A put has failed while the log held a record to redo.
C37_Witness ==
    /\ last.call = "put" /\ last.res = "err"
    /\ undo.ops # <<>> /\ undo.pos < Len(undo.ops)

\* The results sent so far for a space, the requests that wait or run, and
\* the requests for a space that the worker is done with.
ResultsOfSpace(name) ==
    {i \in 1..Len(jobs.out) : jobs.out[i].kind = "Db" /\ jobs.out[i].name = name}

Waiting ==
    {jobs.req[i].id : i \in 1..Len(jobs.req)}
        \cup (IF jobs.worker = "run" THEN {jobs.job.id} ELSE {})

HandledFor(name) ==
    {k \in 1..Len(jobs.asked) : /\ jobs.asked[k].kind = "Db"
                                /\ jobs.asked[k].name = name
                                /\ k \notin Waiting}

=============================================================================
